---- MODULE Spec2Model ----
(***************************************************************************)
(* Session authentication, role resolution, catalog guards, order delta    *)
(* and cart pricing of the auto-parts backend (backend/app), as a state    *)
(* machine over the document collections the handlers read and write.      *)
(*                                                                         *)
(* A collection is a set of documents (records keyed by "_id").  Every     *)
(* request handler is one action; its outcome is left in `resp`.  Money    *)
(* is counted in mills (1/1000 of a currency unit) so that rounding to two *)
(* decimals is a real conversion.                                          *)
(***************************************************************************)
EXTENDS Integers, Sequences, FiniteSets, TLC

VARIABLES
    now,            \* wall clock, datetime.now(timezone.utc)
    users,          \* db.users
    sessions,       \* db.sessions
    partners,       \* db.partners
    admins,         \* db.admins
    subscribers,    \* db.subscribers
    subscription_requests, \* db.subscription_requests
    car_brands,     \* db.car_brands
    car_models,     \* db.car_models
    product_brands, \* db.product_brands
    categories,     \* db.categories
    orders,         \* db.orders
    products,       \* db.products
    carts,          \* db.carts
    resp,           \* the request just served and its response
    pull,           \* the car-models delta request in progress
    client,         \* the offline client's copy of car_models
    calls,          \* the cart requests in progress, between two awaits
    sent,           \* what the request just served broadcast to the sockets
    rate_limit_store \* _rate_limit_store: the accepted calls per key

vars == <<now, users, sessions, partners, admins, subscribers, car_brands,
          car_models, product_brands, categories, orders, products, carts, resp,
          pull, client, calls, subscription_requests, sent, rate_limit_store>>

memberVars == <<partners, admins, subscribers>>
catalogVars == <<car_brands, car_models, product_brands, categories>>
shopVars == <<orders, products, carts>>

----------------------------------------------------------------------------
(* Values *)

None == "None"              \* Python None where a string is expected
NoDoc == [null |-> TRUE]    \* find_one found nothing
NoTime == 0 - 1             \* Python None in a datetime field

PRIMARY_OWNER_EMAIL == "owner@shop"
Emails == {PRIMARY_OWNER_EMAIL, "e1"}
Tokens == {"t1", "t2"}

MaxTime == 2
SESSION_TTL == 2

Roles == {"owner", "partner", "admin", "subscriber", "user", "guest"}

\* A request carries a cookie and an Authorization bearer, either may be absent.
Requests == [cookie : Tokens \cup {None}, bearer : Tokens \cup {None}]

\* Requests that send the token as the cookie, or send none.
Callers == [cookie : Tokens \cup {None}, bearer : {None}]

----------------------------------------------------------------------------
(* Database helpers *)

\* find_one: some document among those the query matches, or nothing.
FindOne(matching) ==
    IF matching # {} THEN CHOOSE d \in matching : TRUE ELSE NoDoc

serialize_doc(doc) ==
    IF doc = NoDoc THEN NoDoc
    ELSE [k \in (DOMAIN doc \ {"_id"}) \cup {"id"} |->
            IF k = "id" THEN doc["_id"] ELSE doc[k]]

UserIdFor(email) == "u:" \o email

----------------------------------------------------------------------------
(* core/security.py *)

get_session_token(req) ==
    IF req.cookie # None THEN req.cookie
    ELSE IF req.bearer # None THEN req.bearer
    ELSE None

\* get_current_user with the expiry comparison written as a strict one.
get_current_user_strict_expiry(req) ==
    LET token == get_session_token(req)
        session == FindOne({s \in sessions : s.session_token = token})
        nobody == [user |-> NoDoc, sessions |-> sessions]
    IN  IF token = None THEN nobody
        ELSE IF session = NoDoc THEN nobody
        ELSE IF session.expires_at # NoTime /\ session.expires_at < now
             THEN [user |-> NoDoc,
                   sessions |-> {s \in sessions : s["_id"] # session["_id"]}]
        ELSE LET user == FindOne({u \in users : u["_id"] = session.user_id})
             IN  IF user = NoDoc THEN nobody
                 ELSE IF user.deleted_at # NoTime THEN nobody
                 ELSE [user |-> serialize_doc(user), sessions |-> sessions]

\* get_current_user without the soft-delete test on the user.
get_current_user_ignoring_deleted(req) ==
    LET token == get_session_token(req)
        session == FindOne({s \in sessions : s.session_token = token})
        nobody == [user |-> NoDoc, sessions |-> sessions]
    IN  IF token = None THEN nobody
        ELSE IF session = NoDoc THEN nobody
        ELSE IF session.expires_at # NoTime /\ session.expires_at <= now
             THEN [user |-> NoDoc,
                   sessions |-> {s \in sessions : s["_id"] # session["_id"]}]
        ELSE LET user == FindOne({u \in users : u["_id"] = session.user_id})
             IN  IF user = NoDoc THEN nobody
                 ELSE [user |-> serialize_doc(user), sessions |-> sessions]

\* The user the request resolves to, and the session store after the lookup
\* (an expired session is deleted on sight).
get_current_user(req) ==
    LET token == get_session_token(req)
        session == FindOne({s \in sessions : s.session_token = token})
        nobody == [user |-> NoDoc, sessions |-> sessions]
    IN  IF token = None THEN nobody
        ELSE IF session = NoDoc THEN nobody
        ELSE IF session.expires_at # NoTime /\ session.expires_at <= now
             THEN [user |-> NoDoc,
                   sessions |-> {s \in sessions : s["_id"] # session["_id"]}]
        ELSE LET user == FindOne({u \in users : u["_id"] = session.user_id})
             IN  IF user = NoDoc THEN nobody
                 ELSE IF user.deleted_at # NoTime THEN nobody
                 ELSE [user |-> serialize_doc(user), sessions |-> sessions]

\* get_user_role asking the admins collection before the partners collection.
get_user_role_admin_first(user) ==
    IF user = NoDoc THEN "guest"
    ELSE LET email == user.email IN
         IF email = PRIMARY_OWNER_EMAIL THEN "owner"
         ELSE IF \E a \in admins : a.email = email /\ a.deleted_at = NoTime
              THEN "admin"
         ELSE IF \E p \in partners : p.email = email /\ p.deleted_at = NoTime
              THEN "partner"
         ELSE IF \E s \in subscribers : s.email = email /\ s.deleted_at = NoTime
              THEN "subscriber"
         ELSE "user"

\* get_user_role with the deleted_at filter left out of its queries.
get_user_role_counting_deleted(user) ==
    IF user = NoDoc THEN "guest"
    ELSE LET email == user.email IN
         IF email = PRIMARY_OWNER_EMAIL THEN "owner"
         ELSE IF \E p \in partners : p.email = email THEN "partner"
         ELSE IF \E a \in admins : a.email = email THEN "admin"
         ELSE IF \E s \in subscribers : s.email = email THEN "subscriber"
         ELSE "user"

get_user_role(user) ==
    IF user = NoDoc THEN "guest"
    ELSE LET email == user.email IN
         IF email = PRIMARY_OWNER_EMAIL THEN "owner"
         ELSE IF \E p \in partners : p.email = email /\ p.deleted_at = NoTime
              THEN "partner"
         ELSE IF \E a \in admins : a.email = email /\ a.deleted_at = NoTime
              THEN "admin"
         ELSE IF \E s \in subscribers : s.email = email /\ s.deleted_at = NoTime
              THEN "subscriber"
         ELSE "user"

require_auth(req) ==
    LET r == get_current_user(req) IN
    [status |-> IF r.user = NoDoc THEN 401 ELSE 200,
     user |-> r.user, sessions |-> r.sessions]

\* require_admin_role that lets every authenticated caller through.
require_admin_role_any_user(req, allowed_roles) ==
    LET a == require_auth(req)
        role == get_user_role(a.user)
    IN  [status |-> IF a.status = 401 THEN 401 ELSE 200,
         user |-> a.user, role |-> role, sessions |-> a.sessions]

require_admin_role(req, allowed_roles) ==
    LET a == require_auth(req)
        role == get_user_role(a.user)
    IN  [status |-> IF a.status = 401 THEN 401
                    ELSE IF role \notin allowed_roles THEN 403 ELSE 200,
         user |-> a.user, role |-> role, sessions |-> a.sessions]

\* The guard written out at the top of the admins, partners, subscribers and
\* customers handlers.
role_guard(req, allowed_roles) ==
    LET r == get_current_user(req)
        role == IF r.user # NoDoc THEN get_user_role(r.user) ELSE "guest"
    IN  [status |-> IF role \notin allowed_roles THEN 403 ELSE 200,
         user |-> r.user, role |-> role, sessions |-> r.sessions]

----------------------------------------------------------------------------
(* What was true of the request's token when the request arrived *)

TokenFacts(req) ==
    LET token == get_session_token(req)
        mine == {s \in sessions : s.session_token = token}
    IN  [stored |-> mine # {},
         expired |-> \E s \in mine : s.expires_at # NoTime /\ s.expires_at <= now,
         user_deleted |-> \E s \in mine : \E u \in users :
                             u["_id"] = s.user_id /\ u.deleted_at # NoTime,
         user_missing |-> \E s \in mine : \A u \in users : u["_id"] # s.user_id,
         email |-> IF \E s \in mine : \E u \in users : u["_id"] = s.user_id
                   THEN (CHOOSE u \in users :
                            \E s \in mine : u["_id"] = s.user_id).email
                   ELSE None]

Response(op, req, guard, status, body) ==
    [op |-> op, token |-> get_session_token(req),
     facts |-> TokenFacts(req),
     user |-> IF guard.user = NoDoc THEN None ELSE guard.user.id,
     role |-> IF "role" \in DOMAIN guard THEN guard.role ELSE None,
     status |-> status, body |-> body]

NoResponse ==
    [op |-> "start", token |-> None,
     facts |-> [stored |-> FALSE, expired |-> FALSE, user_deleted |-> FALSE,
                user_missing |-> FALSE, email |-> None],
     user |-> None, role |-> None, status |-> 0, body |-> NoDoc]

\* No car-models delta request is in progress and none was served.
NoPull ==
    [stage |-> "idle", last_sync |-> None, items |-> {}, deleted_ids |-> {},
     queried_at |-> NoTime, seen |-> {}, server_time |-> None]

\* A client that has not pulled yet.
NoClient == [replica |-> {}, since |-> None]

\* The (client address, endpoint) pairs that call the rate limiter.
RatePairs == {<<"ip1", "general">>, <<"ip1", "login">>, <<"ip2", "general">>}

RateKey(client_ip, endpoint) == client_ip \o ":" \o endpoint

\* defaultdict(list): every key starts with no call recorded.
NoCallsRecorded == [key \in {RateKey(p[1], p[2]) : p \in RatePairs} |-> <<>>]

\* manager.broadcast publishes a message to every connected socket.
NoBroadcast == <<>>

Broadcast(tables) == <<[type |-> "sync", tables |-> tables]>>

\* The cart requests that can be in progress at once.
CallIds == {"c1", "c2"}

NoCall == [op |-> "idle"]

NoCalls == [c \in CallIds |-> NoCall]

----------------------------------------------------------------------------
(* Sessions: clock, login, logout, user removal, guarded requests *)

Tick ==
    /\ now < MaxTime
    /\ now' = now + 1
    /\ resp' = NoResponse
    /\ sent' = NoBroadcast
    /\ UNCHANGED <<rate_limit_store, subscription_requests, calls, pull, client, users, sessions, memberVars, catalogVars, shopVars>>

exchange_session(email, token) ==
    LET existing_user == FindOne({u \in users : u.email = email})
        user_id == IF existing_user # NoDoc THEN existing_user["_id"]
                   ELSE UserIdFor(email)
    IN  /\ \A s \in sessions : s.session_token # token
        /\ users' = IF existing_user # NoDoc THEN users
                    ELSE users \cup {[_id |-> user_id, email |-> email,
                                      deleted_at |-> NoTime]}
        /\ sessions' = sessions \cup
              {[_id |-> "s:" \o token, session_token |-> token,
                user_id |-> user_id, expires_at |-> now + SESSION_TTL]}
        /\ resp' = [NoResponse EXCEPT !.op = "exchange_session",
                                      !.token = token,
                                      !.user = user_id, !.status = 200]
        /\ sent' = NoBroadcast
        /\ UNCHANGED <<rate_limit_store, subscription_requests, calls, pull, client, now, memberVars, catalogVars, shopVars>>

logout(req) ==
    LET token == get_session_token(req) IN
    /\ sessions' = IF token # None
                   THEN {s \in sessions : s.session_token # token}
                   ELSE sessions
    /\ resp' = [NoResponse EXCEPT !.op = "logout", !.token = token,
                                  !.status = 200]
    /\ sent' = NoBroadcast
    /\ UNCHANGED <<rate_limit_store, subscription_requests, calls, pull, client, now, users, memberVars, catalogVars, shopVars>>

soft_delete_user(uid) ==
    /\ \E u \in users : u["_id"] = uid /\ u.deleted_at = NoTime
    /\ users' = {IF u["_id"] = uid THEN [u EXCEPT !.deleted_at = now] ELSE u :
                    u \in users}
    /\ resp' = NoResponse
    /\ sent' = NoBroadcast
    /\ UNCHANGED <<rate_limit_store, subscription_requests, calls, pull, client, now, sessions, memberVars, catalogVars, shopVars>>

\* Any handler that starts with require_auth.
authenticated_request(req) ==
    LET g == require_auth(req) IN
    /\ sessions' = g.sessions
    /\ resp' = Response("require_auth", req, g, g.status, NoDoc)
    /\ sent' = NoBroadcast
    /\ UNCHANGED <<rate_limit_store, subscription_requests, calls, pull, client, now, users, memberVars, catalogVars, shopVars>>

check_admin_access(req) ==
    LET r == get_current_user(req)
        role == get_user_role(r.user)
        g == [user |-> r.user, role |-> IF r.user = NoDoc THEN None ELSE role]
    IN  /\ sessions' = r.sessions
        /\ resp' = IF r.user = NoDoc
                   THEN Response("check_admin_access", req, g, 401, NoDoc)
                   ELSE Response("check_admin_access", req, g, 200,
                           [ids |-> IF role \in {"owner", "partner", "admin"}
                                    THEN {a["_id"] : a \in
                                            {x \in admins : x.deleted_at = NoTime}}
                                    ELSE {}])
        /\ sent' = NoBroadcast
        /\ UNCHANGED <<rate_limit_store, subscription_requests, calls, pull, client, now, users, memberVars, catalogVars, shopVars>>

get_partners(req) ==
    LET g == role_guard(req, {"owner", "partner"}) IN
    /\ sessions' = g.sessions
    /\ resp' = Response("get_partners", req, g, g.status,
                  IF g.status = 200
                  THEN [ids |-> {p["_id"] : p \in
                                   {x \in partners : x.deleted_at = NoTime}}]
                  ELSE NoDoc)
    /\ sent' = NoBroadcast
    /\ UNCHANGED <<rate_limit_store, subscription_requests, calls, pull, client, now, users, memberVars, catalogVars, shopVars>>

InitEmpty ==
    /\ now = 0
    /\ users = {} /\ sessions = {}
    /\ partners = {} /\ admins = {} /\ subscribers = {}
    /\ car_brands = {} /\ car_models = {} /\ product_brands = {} /\ categories = {}
    /\ orders = {} /\ products = {} /\ carts = {}
    /\ resp = NoResponse
    /\ pull = NoPull
    /\ client = NoClient
    /\ calls = NoCalls
    /\ subscription_requests = {}
    /\ sent = NoBroadcast
    /\ rate_limit_store = NoCallsRecorded

Init == InitEmpty

NextSession ==
    \/ Tick
    \/ \E e \in Emails, t \in Tokens : exchange_session(e, t)
    \/ \E r \in Requests : logout(r)
    \/ \E u \in {UserIdFor(e) : e \in Emails} : soft_delete_user(u)
    \/ \E r \in Requests : authenticated_request(r)
    \/ \E r \in Requests : check_admin_access(r)
    \/ \E r \in Requests : get_partners(r)

SpecSession == Init /\ [][NextSession]_vars

----------------------------------------------------------------------------
(* Memberships: partners.py, admins.py, subscribers.py *)

MaxMembers == 2
MaxCatalog == 1

MemberCount ==
    Cardinality(partners) + Cardinality(admins) + Cardinality(subscribers)

MemberDoc(id, email) == [_id |-> id, email |-> email, deleted_at |-> NoTime]

SoftDelete(coll, id) ==
    {IF d["_id"] = id THEN [d EXCEPT !.deleted_at = now] ELSE d : d \in coll}

EmailOf(coll, id) ==
    IF \E d \in coll : d["_id"] = id
    THEN (CHOOSE d \in coll : d["_id"] = id).email
    ELSE None

\* add_partner when partners may add partners too.
add_partner_partners_allowed(req, email) ==
    LET g == role_guard(req, {"owner", "partner"})
        existing == FindOne({p \in partners : p.email = email /\ p.deleted_at = NoTime})
        id == "partner-" \o ToString(Cardinality(partners) + 1)
        status == IF g.status # 200 THEN 403
                  ELSE IF existing # NoDoc THEN 400 ELSE 200
    IN  /\ MemberCount < MaxMembers
        /\ sessions' = g.sessions
        /\ partners' = IF status = 200
                       THEN partners \cup {MemberDoc(id, email)} ELSE partners
        /\ resp' = Response("add_partner", req, g, status,
                            IF status = 200 THEN [id |-> id, email |-> email]
                            ELSE NoDoc)
        /\ sent' = IF resp'.status = 200 THEN Broadcast({"partners"})
                   ELSE NoBroadcast
        /\ UNCHANGED <<rate_limit_store, subscription_requests, calls, pull, client, now, users, admins, subscribers, catalogVars, shopVars>>

add_partner(req, email) ==
    LET g == role_guard(req, {"owner"})
        existing == FindOne({p \in partners : p.email = email /\ p.deleted_at = NoTime})
        id == "partner-" \o ToString(Cardinality(partners) + 1)
        status == IF g.status # 200 THEN 403
                  ELSE IF existing # NoDoc THEN 400 ELSE 200
    IN  /\ MemberCount < MaxMembers
        /\ sessions' = g.sessions
        /\ partners' = IF status = 200
                       THEN partners \cup {MemberDoc(id, email)} ELSE partners
        /\ resp' = Response("add_partner", req, g, status,
                            IF status = 200 THEN [id |-> id, email |-> email]
                            ELSE NoDoc)
        /\ sent' = IF resp'.status = 200 THEN Broadcast({"partners"})
                   ELSE NoBroadcast
        /\ UNCHANGED <<rate_limit_store, subscription_requests, calls, pull, client, now, users, admins, subscribers, catalogVars, shopVars>>

delete_partner(req, partner_id) ==
    LET g == role_guard(req, {"owner"}) IN
    /\ sessions' = g.sessions
    /\ partners' = IF g.status = 200 THEN SoftDelete(partners, partner_id)
                   ELSE partners
    /\ resp' = Response("delete_partner", req, g, g.status,
                        IF g.status = 200
                        THEN [id |-> partner_id,
                              email |-> EmailOf(partners, partner_id)]
                        ELSE NoDoc)
    /\ sent' = IF resp'.status = 200 THEN Broadcast({"partners"})
               ELSE NoBroadcast
    /\ UNCHANGED <<rate_limit_store, subscription_requests, calls, pull, client, now, users, admins, subscribers, catalogVars, shopVars>>

\* add_admin that inserts before it looks for the email.
add_admin_insert_first(req, email) ==
    LET g == role_guard(req, {"owner", "partner"})
        existing == FindOne({a \in admins : a.email = email /\ a.deleted_at = NoTime})
        id == "admin-" \o ToString(Cardinality(admins) + 1)
        status == IF g.status # 200 THEN 403
                  ELSE IF existing # NoDoc THEN 400 ELSE 200
    IN  /\ MemberCount < MaxMembers
        /\ sessions' = g.sessions
        /\ admins' = IF g.status = 200
                     THEN admins \cup {MemberDoc(id, email)} ELSE admins
        /\ resp' = Response("add_admin", req, g, status,
                            IF status = 200 THEN [id |-> id, email |-> email]
                            ELSE NoDoc)
        /\ sent' = IF resp'.status = 200 THEN Broadcast({"admins"})
                   ELSE NoBroadcast
        /\ UNCHANGED <<rate_limit_store, subscription_requests, calls, pull, client, now, users, partners, subscribers, catalogVars, shopVars>>

add_admin(req, email) ==
    LET g == role_guard(req, {"owner", "partner"})
        existing == FindOne({a \in admins : a.email = email /\ a.deleted_at = NoTime})
        id == "admin-" \o ToString(Cardinality(admins) + 1)
        status == IF g.status # 200 THEN 403
                  ELSE IF existing # NoDoc THEN 400 ELSE 200
    IN  /\ MemberCount < MaxMembers
        /\ sessions' = g.sessions
        /\ admins' = IF status = 200
                     THEN admins \cup {MemberDoc(id, email)} ELSE admins
        /\ resp' = Response("add_admin", req, g, status,
                            IF status = 200 THEN [id |-> id, email |-> email]
                            ELSE NoDoc)
        /\ sent' = IF resp'.status = 200 THEN Broadcast({"admins"})
                   ELSE NoBroadcast
        /\ UNCHANGED <<rate_limit_store, subscription_requests, calls, pull, client, now, users, partners, subscribers, catalogVars, shopVars>>

delete_admin(req, admin_id) ==
    LET g == role_guard(req, {"owner", "partner"}) IN
    /\ sessions' = g.sessions
    /\ admins' = IF g.status = 200 THEN SoftDelete(admins, admin_id) ELSE admins
    /\ resp' = Response("delete_admin", req, g, g.status,
                        IF g.status = 200
                        THEN [id |-> admin_id, email |-> EmailOf(admins, admin_id)]
                        ELSE NoDoc)
    /\ sent' = IF resp'.status = 200 THEN Broadcast({"admins"})
               ELSE NoBroadcast
    /\ UNCHANGED <<rate_limit_store, subscription_requests, calls, pull, client, now, users, partners, subscribers, catalogVars, shopVars>>

\* The per-admin statistics of the listing read products and orders only;
\* the listing is kept as the ids of the admins it returns.
get_admins(req) ==
    LET g == role_guard(req, {"owner", "partner"}) IN
    /\ sessions' = g.sessions
    /\ resp' = Response("get_admins", req, g, g.status,
                  IF g.status = 200
                  THEN [ids |-> {a["_id"] : a \in
                                   {x \in admins : x.deleted_at = NoTime}}]
                  ELSE NoDoc)
    /\ sent' = NoBroadcast
    /\ UNCHANGED <<rate_limit_store, subscription_requests, calls, pull, client, now, users, memberVars, catalogVars, shopVars>>

add_subscriber(req, email) ==
    LET g == role_guard(req, {"owner", "partner"})
        existing == FindOne({x \in subscribers : x.email = email /\ x.deleted_at = NoTime})
        id == "subscriber-" \o ToString(Cardinality(subscribers) + 1)
        status == IF g.status # 200 THEN 403
                  ELSE IF existing # NoDoc THEN 400 ELSE 200
    IN  /\ MemberCount < MaxMembers
        /\ sessions' = g.sessions
        /\ subscribers' = IF status = 200
                          THEN subscribers \cup {MemberDoc(id, email)}
                          ELSE subscribers
        /\ resp' = Response("add_subscriber", req, g, status,
                            IF status = 200 THEN [id |-> id, email |-> email]
                            ELSE NoDoc)
        /\ sent' = IF resp'.status = 200 THEN Broadcast({"subscribers"})
                   ELSE NoBroadcast
        /\ UNCHANGED <<rate_limit_store, subscription_requests, calls, pull, client, now, users, partners, admins, catalogVars, shopVars>>

delete_subscriber(req, subscriber_id) ==
    LET g == role_guard(req, {"owner", "partner"}) IN
    /\ sessions' = g.sessions
    /\ subscribers' = IF g.status = 200
                      THEN SoftDelete(subscribers, subscriber_id)
                      ELSE subscribers
    /\ resp' = Response("delete_subscriber", req, g, g.status,
                        IF g.status = 200
                        THEN [id |-> subscriber_id,
                              email |-> EmailOf(subscribers, subscriber_id)]
                        ELSE NoDoc)
    /\ sent' = IF resp'.status = 200 THEN Broadcast({"subscribers"})
               ELSE NoBroadcast
    /\ UNCHANGED <<rate_limit_store, subscription_requests, calls, pull, client, now, users, partners, admins, catalogVars, shopVars>>

----------------------------------------------------------------------------
(* Catalog: car_brands.py, product_brands.py, car_models.py, categories.py *)

Names == {"n1", "n2"}

CatalogDoc(id, name) ==
    [_id |-> id, name |-> name, updated_at |-> now, deleted_at |-> NoTime]

CatalogDelete(coll, id) ==
    {IF d["_id"] = id THEN [d EXCEPT !.deleted_at = now, !.updated_at = now]
     ELSE d : d \in coll}

CatalogUpdate(coll, id, name) ==
    {IF d["_id"] = id THEN [d EXCEPT !.name = name, !.updated_at = now]
     ELSE d : d \in coll}

StaffRoles == {"owner", "partner", "admin"}

CatalogCount ==
    Cardinality(car_brands) + Cardinality(car_models)
    + Cardinality(product_brands) + Cardinality(categories)

\* A handler that never looks at the caller.
Unguarded == [status |-> 200, user |-> NoDoc]

create_car_brand(req, name) ==
    LET g == require_admin_role(req, StaffRoles)
        id == "cb_" \o ToString(Cardinality(car_brands) + 1)
    IN  /\ CatalogCount < MaxCatalog
        /\ sessions' = g.sessions
        /\ car_brands' = IF g.status = 200
                         THEN car_brands \cup {CatalogDoc(id, name)}
                         ELSE car_brands
        /\ resp' = Response("create_car_brand", req, g, g.status,
                            IF g.status = 200 THEN [id |-> id] ELSE NoDoc)
        /\ sent' = IF resp'.status = 200 THEN Broadcast({"car_brands"})
                   ELSE NoBroadcast
        /\ UNCHANGED <<rate_limit_store, subscription_requests, calls, pull, client, now, users, memberVars, car_models, product_brands,
                       categories, shopVars>>

update_car_brand(req, brand_id, name) ==
    LET g == require_admin_role(req, StaffRoles)
        existing == FindOne({b \in car_brands :
                                b["_id"] = brand_id /\ b.deleted_at = NoTime})
        status == IF g.status # 200 THEN g.status
                  ELSE IF existing = NoDoc THEN 404 ELSE 200
    IN  /\ sessions' = g.sessions
        /\ car_brands' = IF status = 200
                         THEN CatalogUpdate(car_brands, brand_id, name)
                         ELSE car_brands
        /\ resp' = Response("update_car_brand", req, g, status,
                            IF status = 200 THEN [id |-> brand_id] ELSE NoDoc)
        /\ sent' = IF resp'.status = 200 THEN Broadcast({"car_brands"})
                   ELSE NoBroadcast
        /\ UNCHANGED <<rate_limit_store, subscription_requests, calls, pull, client, now, users, memberVars, car_models, product_brands,
                       categories, shopVars>>

delete_car_brand(req, brand_id) ==
    LET g == require_admin_role(req, StaffRoles) IN
    /\ sessions' = g.sessions
    /\ car_brands' = IF g.status = 200 THEN CatalogDelete(car_brands, brand_id)
                     ELSE car_brands
    /\ resp' = Response("delete_car_brand", req, g, g.status,
                        IF g.status = 200 THEN [id |-> brand_id] ELSE NoDoc)
    /\ sent' = IF resp'.status = 200 THEN Broadcast({"car_brands"})
               ELSE NoBroadcast
    /\ UNCHANGED <<rate_limit_store, subscription_requests, calls, pull, client, now, users, memberVars, car_models, product_brands,
                   categories, shopVars>>

create_product_brand(req, name) ==
    LET g == require_admin_role(req, StaffRoles)
        id == "pb_" \o ToString(Cardinality(product_brands) + 1)
    IN  /\ CatalogCount < MaxCatalog
        /\ sessions' = g.sessions
        /\ product_brands' = IF g.status = 200
                             THEN product_brands \cup {CatalogDoc(id, name)}
                             ELSE product_brands
        /\ resp' = Response("create_product_brand", req, g, g.status,
                            IF g.status = 200 THEN [id |-> id] ELSE NoDoc)
        /\ sent' = IF resp'.status = 200 THEN Broadcast({"product_brands"})
                   ELSE NoBroadcast
        /\ UNCHANGED <<rate_limit_store, subscription_requests, calls, pull, client, now, users, memberVars, car_brands, car_models,
                       categories, shopVars>>

update_product_brand(req, brand_id, name) ==
    LET g == require_admin_role(req, StaffRoles) IN
    /\ sessions' = g.sessions
    /\ product_brands' = IF g.status = 200
                         THEN CatalogUpdate(product_brands, brand_id, name)
                         ELSE product_brands
    /\ resp' = Response("update_product_brand", req, g, g.status,
                        IF g.status = 200 THEN [id |-> brand_id] ELSE NoDoc)
    /\ sent' = IF resp'.status = 200 THEN Broadcast({"product_brands"})
               ELSE NoBroadcast
    /\ UNCHANGED <<rate_limit_store, subscription_requests, calls, pull, client, now, users, memberVars, car_brands, car_models,
                   categories, shopVars>>

delete_product_brand(req, brand_id) ==
    LET g == require_admin_role(req, StaffRoles) IN
    /\ sessions' = g.sessions
    /\ product_brands' = IF g.status = 200
                         THEN CatalogDelete(product_brands, brand_id)
                         ELSE product_brands
    /\ resp' = Response("delete_product_brand", req, g, g.status,
                        IF g.status = 200 THEN [id |-> brand_id] ELSE NoDoc)
    /\ sent' = IF resp'.status = 200 THEN Broadcast({"product_brands"})
               ELSE NoBroadcast
    /\ UNCHANGED <<rate_limit_store, subscription_requests, calls, pull, client, now, users, memberVars, car_brands, car_models,
                   categories, shopVars>>

create_car_model(req, name) ==
    LET id == "cm_" \o ToString(Cardinality(car_models) + 1) IN
    /\ CatalogCount < MaxCatalog
    /\ car_models' = car_models \cup {CatalogDoc(id, name)}
    /\ resp' = Response("create_car_model", req, Unguarded, 200, [id |-> id])
    /\ sent' = IF resp'.status = 200 THEN Broadcast({"car_models"})
               ELSE NoBroadcast
    /\ UNCHANGED <<rate_limit_store, subscription_requests, calls, pull, client, now, users, sessions, memberVars, car_brands,
                   product_brands, categories, shopVars>>

update_car_model(req, model_id, name) ==
    /\ car_models' = CatalogUpdate(car_models, model_id, name)
    /\ resp' = Response("update_car_model", req, Unguarded, 200, [id |-> model_id])
    /\ sent' = IF resp'.status = 200 THEN Broadcast({"car_models"})
               ELSE NoBroadcast
    /\ UNCHANGED <<rate_limit_store, subscription_requests, calls, pull, client, now, users, sessions, memberVars, car_brands,
                   product_brands, categories, shopVars>>

delete_car_model(req, model_id) ==
    /\ car_models' = CatalogDelete(car_models, model_id)
    /\ resp' = Response("delete_car_model", req, Unguarded, 200, [id |-> model_id])
    /\ sent' = IF resp'.status = 200 THEN Broadcast({"car_models"})
               ELSE NoBroadcast
    /\ UNCHANGED <<rate_limit_store, subscription_requests, calls, pull, client, now, users, sessions, memberVars, car_brands,
                   product_brands, categories, shopVars>>

create_category(req, name) ==
    LET id == "cat_" \o ToString(Cardinality(categories) + 1) IN
    /\ CatalogCount < MaxCatalog
    /\ categories' = categories \cup {CatalogDoc(id, name)}
    /\ resp' = Response("create_category", req, Unguarded, 200, [id |-> id])
    /\ sent' = IF resp'.status = 200 THEN Broadcast({"categories"})
               ELSE NoBroadcast
    /\ UNCHANGED <<rate_limit_store, subscription_requests, calls, pull, client, now, users, sessions, memberVars, car_brands, car_models,
                   product_brands, shopVars>>

delete_category(req, cat_id) ==
    /\ categories' = CatalogDelete(categories, cat_id)
    /\ resp' = Response("delete_category", req, Unguarded, 200, [id |-> cat_id])
    /\ sent' = IF resp'.status = 200 THEN Broadcast({"categories"})
               ELSE NoBroadcast
    /\ UNCHANGED <<rate_limit_store, subscription_requests, calls, pull, client, now, users, sessions, memberVars, car_brands, car_models,
                   product_brands, shopVars>>

get_admin(req, admin_id) ==
    LET g == role_guard(req, {"owner", "partner"})
        admin == FindOne({a \in admins :
                             a["_id"] = admin_id /\ a.deleted_at = NoTime})
        status == IF g.status # 200 THEN 403
                  ELSE IF admin = NoDoc THEN 404 ELSE 200
    IN  /\ sessions' = g.sessions
        /\ resp' = Response("get_admin", req, g, status,
                            IF status = 200 THEN serialize_doc(admin) ELSE NoDoc)
        /\ sent' = NoBroadcast
        /\ UNCHANGED <<rate_limit_store, subscription_requests, calls, pull, client, now, users, memberVars, catalogVars, shopVars>>

update_admin(req, admin_id, email) ==
    LET g == role_guard(req, {"owner", "partner"})
        admin == FindOne({a \in admins :
                             a["_id"] = admin_id /\ a.deleted_at = NoTime})
        existing == FindOne({a \in admins :
                                /\ a.email = email /\ a["_id"] # admin_id
                                /\ a.deleted_at = NoTime})
        status == IF g.status # 200 THEN 403
                  ELSE IF admin = NoDoc THEN 404
                  ELSE IF email # admin.email /\ existing # NoDoc THEN 400
                  ELSE 200
    IN  /\ sessions' = g.sessions
        /\ admins' = IF status = 200
                     THEN {IF a["_id"] = admin_id THEN [a EXCEPT !.email = email]
                           ELSE a : a \in admins}
                     ELSE admins
        /\ resp' = Response("update_admin", req, g, status,
                            IF status = 200 THEN [id |-> admin_id, email |-> email]
                            ELSE NoDoc)
        /\ sent' = IF resp'.status = 200 THEN Broadcast({"admins"})
                   ELSE NoBroadcast
        /\ UNCHANGED <<rate_limit_store, subscription_requests, calls, pull, client, now, users, partners, subscribers, catalogVars, shopVars>>

----------------------------------------------------------------------------
(* Role resolution and guards under changing memberships *)

UserDoc(email, deleted_at) ==
    [_id |-> UserIdFor(email), email |-> email, deleted_at |-> deleted_at]

SessionDoc(token, email, expires_at) ==
    [_id |-> "s:" \o token, session_token |-> token,
     user_id |-> UserIdFor(email), expires_at |-> expires_at]

\* The owner is logged in on t1; t2 is a customer's session that is live,
\* expired, or live with the customer soft-deleted.
InitAccess ==
    /\ now = 2
    /\ \E kind \in {"live", "expired", "deleted"} :
        /\ users = {UserDoc(PRIMARY_OWNER_EMAIL, NoTime),
                    UserDoc("e1", IF kind = "deleted" THEN 2 ELSE NoTime)}
        /\ sessions = {SessionDoc("t1", PRIMARY_OWNER_EMAIL, 4),
                       SessionDoc("t2", "e1", IF kind = "expired" THEN 2 ELSE 4)}
    /\ partners = {} /\ admins = {} /\ subscribers = {}
    /\ car_brands = {} /\ car_models = {} /\ product_brands = {} /\ categories = {}
    /\ orders = {} /\ products = {} /\ carts = {}
    /\ resp = NoResponse
    /\ pull = NoPull
    /\ client = NoClient
    /\ calls = NoCalls
    /\ subscription_requests = {}
    /\ sent = NoBroadcast
    /\ rate_limit_store = NoCallsRecorded

MemberIds(prefix) == {prefix \o ToString(i) : i \in 1..MaxMembers} \cup {"missing"}

NextAccess ==
    \/ \E r \in Callers, e \in Emails : add_partner(r, e)
    \/ \E r \in Callers, id \in MemberIds("partner-") : delete_partner(r, id)
    \/ \E r \in Callers, e \in Emails : add_admin(r, e)
    \/ \E r \in Callers, id \in MemberIds("admin-") : delete_admin(r, id)
    \/ \E r \in Callers, e \in Emails : add_subscriber(r, e)
    \/ \E r \in Callers, id \in MemberIds("subscriber-") : delete_subscriber(r, id)
    \/ \E r \in Callers : get_admins(r)
    \/ \E r \in Callers : create_car_brand(r, "n1")

SpecAccess == InitAccess /\ [][NextAccess]_vars

----------------------------------------------------------------------------
(* Catalog writes and the admins endpoints, with and without a session *)

\* The owner is logged in on t1; t2 names a session that has expired.
InitCatalog ==
    /\ now = 2
    /\ users = {UserDoc(PRIMARY_OWNER_EMAIL, NoTime), UserDoc("e1", NoTime)}
    /\ sessions = {SessionDoc("t1", PRIMARY_OWNER_EMAIL, 4),
                   SessionDoc("t2", "e1", 2)}
    /\ partners = {} /\ admins = {} /\ subscribers = {}
    /\ car_brands = {} /\ car_models = {} /\ product_brands = {} /\ categories = {}
    /\ orders = {} /\ products = {} /\ carts = {}
    /\ resp = NoResponse
    /\ pull = NoPull
    /\ client = NoClient
    /\ calls = NoCalls
    /\ subscription_requests = {}
    /\ sent = NoBroadcast
    /\ rate_limit_store = NoCallsRecorded

CatalogIds(prefix) == {prefix \o ToString(i) : i \in 1..MaxCatalog} \cup {"missing"}

NextCatalog ==
    \/ \E r \in Callers : create_car_brand(r, "n1")
    \/ \E r \in Callers, id \in CatalogIds("cb_") : update_car_brand(r, id, "n2")
    \/ \E r \in Callers, id \in CatalogIds("cb_") : delete_car_brand(r, id)
    \/ \E r \in Callers : create_product_brand(r, "n1")
    \/ \E r \in Callers, id \in CatalogIds("pb_") : update_product_brand(r, id, "n2")
    \/ \E r \in Callers, id \in CatalogIds("pb_") : delete_product_brand(r, id)
    \/ \E r \in Callers : create_car_model(r, "n1")
    \/ \E r \in Callers, id \in CatalogIds("cm_") : update_car_model(r, id, "n2")
    \/ \E r \in Callers, id \in CatalogIds("cm_") : delete_car_model(r, id)
    \/ \E r \in Callers : create_category(r, "n1")
    \/ \E r \in Callers, id \in CatalogIds("cat_") : delete_category(r, id)
    \/ \E r \in Callers : get_admins(r)
    \/ \E r \in Callers, e \in Emails : add_admin(r, e)
    \/ \E r \in Callers, id \in MemberIds("admin-") : get_admin(r, id)
    \/ \E r \in Callers, id \in MemberIds("admin-"), e \in Emails :
          update_admin(r, id, e)
    \/ \E r \in Callers, id \in MemberIds("admin-") : delete_admin(r, id)

SpecCatalog == InitCatalog /\ [][NextCatalog]_vars

----------------------------------------------------------------------------
(* Orders and the orders delta endpoint *)

MaxOrders == 1

isoformat(t) == ToString(t)

\* What a client can send as last_sync: a timestamp, or text that is not one.
Timestamps == {isoformat(t) : t \in 0..(MaxTime - 1)} \cup {"bad"}

parse_timestamp(ts) ==
    IF ts = None THEN NoTime
    ELSE IF \E t \in 0..MaxTime : isoformat(t) = ts
         THEN CHOOSE t \in 0..MaxTime : isoformat(t) = ts
         ELSE NoTime

OrderDoc(id, user_id, at) ==
    [_id |-> id, user_id |-> user_id, created_at |-> at, updated_at |-> at,
     deleted_at |-> NoTime]

RECURSIVE SortByCreatedDesc(_)
SortByCreatedDesc(docs) ==
    IF docs = {} THEN <<>>
    ELSE LET first == CHOOSE d \in docs : \A e \in docs : e.created_at <= d.created_at
         IN  <<first>> \o SortByCreatedDesc(docs \ {first})

SerializeAll(docs) == [i \in DOMAIN docs |-> serialize_doc(docs[i])]

\* The orders delta that filters on whatever user_id the caller supplies.
orders_delta_trusting_user_id(user, role, last_sync, user_id) ==
    LET last_sync_dt == parse_timestamp(last_sync)
        found == {o \in orders :
                     /\ o.deleted_at = NoTime
                     /\ user_id # None => o.user_id = user_id
                     /\ last_sync_dt # NoTime => o.updated_at > last_sync_dt}
        deleted_docs == {o \in orders :
                            /\ last_sync_dt # NoTime
                            /\ o.deleted_at > last_sync_dt
                            /\ user_id # None => o.user_id = user_id}
    IN  [orders |-> SerializeAll(SortByCreatedDesc(found)),
         deleted_ids |-> {o["_id"] : o \in deleted_docs},
         is_delta |-> last_sync # None,
         params |-> [last_sync |-> last_sync, user_id |-> user_id]]

orders_delta(user, role, last_sync, user_id) ==
    LET last_sync_dt == parse_timestamp(last_sync)
        staff == role \in {"owner", "partner", "admin"}
        found == {o \in orders :
                     /\ o.deleted_at = NoTime
                     /\ IF staff THEN user_id # None => o.user_id = user_id
                        ELSE o.user_id = user.id
                     /\ last_sync_dt # NoTime => o.updated_at > last_sync_dt}
        deleted_docs == {o \in orders :
                            /\ last_sync_dt # NoTime
                            /\ o.deleted_at > last_sync_dt
                            /\ IF ~staff THEN o.user_id = user.id
                               ELSE user_id # None => o.user_id = user_id}
    IN  [orders |-> SerializeAll(SortByCreatedDesc(found)),
         deleted_ids |-> {o["_id"] : o \in deleted_docs},
         is_delta |-> last_sync # None,
         params |-> [last_sync |-> last_sync, user_id |-> user_id]]

get_orders_delta(req, last_sync, user_id) ==
    LET r == get_current_user(req)
        role == get_user_role(r.user)
        body == IF r.user = NoDoc
                THEN [orders |-> <<>>, deleted_ids |-> {},
                      is_delta |-> last_sync # None,
                      params |-> [last_sync |-> last_sync, user_id |-> user_id]]
                ELSE orders_delta(r.user, role, last_sync, user_id)
    IN  /\ sessions' = r.sessions
        /\ resp' = Response("get_orders_delta", req,
                            [user |-> r.user, role |-> role], 200, body)
        /\ sent' = NoBroadcast
        /\ UNCHANGED <<rate_limit_store, subscription_requests, calls, pull, client, now, users, memberVars, catalogVars, shopVars>>

\* An authenticated customer places an order.
create_order(req) ==
    LET g == require_auth(req)
        id == "o" \o ToString(Cardinality(orders) + 1)
    IN  /\ Cardinality(orders) < MaxOrders
        /\ sessions' = g.sessions
        /\ orders' = IF g.status = 200
                     THEN orders \cup {OrderDoc(id, g.user.id, now)}
                     ELSE orders
        /\ resp' = Response("create_order", req, g, g.status,
                            IF g.status = 200 THEN [id |-> id] ELSE NoDoc)
        /\ sent' = NoBroadcast
        /\ UNCHANGED <<rate_limit_store, subscription_requests, calls, pull, client, now, users, memberVars, catalogVars, products, carts>>

\* An order is soft-deleted.
soft_delete_order(order_id) ==
    /\ \E o \in orders : o["_id"] = order_id /\ o.deleted_at = NoTime
    /\ orders' = {IF o["_id"] = order_id
                  THEN [o EXCEPT !.deleted_at = now, !.updated_at = now]
                  ELSE o : o \in orders}
    /\ resp' = NoResponse
    /\ sent' = NoBroadcast
    /\ UNCHANGED <<rate_limit_store, subscription_requests, calls, pull, client, now, users, sessions, memberVars, catalogVars, products, carts>>

\* The owner is logged in on t1 and a second account on t2, which expires at
\* the last instant; the second account is a plain user or an admin.
InitOrders ==
    /\ now = 0
    /\ users = {UserDoc(PRIMARY_OWNER_EMAIL, NoTime), UserDoc("e1", NoTime)}
    /\ sessions = {SessionDoc("t1", PRIMARY_OWNER_EMAIL, MaxTime + SESSION_TTL),
                   SessionDoc("t2", "e1", MaxTime)}
    /\ partners = {}
    /\ \E kind \in {"user", "admin"} :
        admins = IF kind = "admin" THEN {MemberDoc("admin-1", "e1")} ELSE {}
    /\ subscribers = {}
    /\ car_brands = {} /\ car_models = {} /\ product_brands = {} /\ categories = {}
    /\ orders = {} /\ products = {} /\ carts = {}
    /\ resp = NoResponse
    /\ pull = NoPull
    /\ client = NoClient
    /\ calls = NoCalls
    /\ subscription_requests = {}
    /\ sent = NoBroadcast
    /\ rate_limit_store = NoCallsRecorded

OrderIds == {"o" \o ToString(i) : i \in 1..MaxOrders}

NextOrders ==
    \/ Tick
    \/ \E r \in Callers : create_order(r)
    \/ \E id \in OrderIds : soft_delete_order(id)
    \/ \E r \in Callers, ts \in Timestamps \cup {None},
          uid \in {UserIdFor(PRIMARY_OWNER_EMAIL), None} :
          get_orders_delta(r, ts, uid)

SpecOrders == InitOrders /\ [][NextOrders]_vars

----------------------------------------------------------------------------
(* Server-side cart.  Money is counted in thousandths of a currency unit. *)

MaxLines == 2
MaxQty == 2
MaxLineQty == 5

NoPrice == 0 - 1            \* Python None where a float is expected

\* The integer nearest to n / d, ties to the even one, as Python rounds.
RoundHalfEven(n, d) ==
    LET a == IF n < 0 THEN 0 - n ELSE n
        q == a \div d
        r == a % d
        m == IF 2 * r > d \/ (2 * r = d /\ q % 2 = 1) THEN q + 1 ELSE q
    IN  IF n < 0 THEN 0 - m ELSE m

\* round(x, 2)
round2(x) == 10 * RoundHalfEven(x, 10)

ProductDoc(id, price) == [_id |-> id, price |-> price, deleted_at |-> NoTime]

CartIdFor(user_id) == "cart:" \o user_id

CartOf(user_id) == FindOne({c \in carts : c.user_id = user_id})

\* Pricing that reads the product's live price instead of the stored one.
RECURSIVE cart_items_live_price(_)
cart_items_live_price(items) ==
    IF items = <<>> THEN <<>>
    ELSE LET item == Head(items)
             product == FindOne({p \in products : p["_id"] = item.product_id})
             original_price == product.price
             final_price == IF "final_unit_price" \in DOMAIN item
                            THEN item.final_unit_price ELSE product.price
             quantity == item.quantity
             line == [product_id |-> item.product_id,
                      quantity |-> quantity,
                      original_unit_price |-> original_price,
                      final_unit_price |-> final_price,
                      discount_details |-> item.discount_details,
                      bundle_group_id |-> item.bundle_group_id,
                      item_subtotal |-> final_price * quantity,
                      item_discount |-> (original_price - final_price) * quantity,
                      product |-> serialize_doc(product)]
         IN  IF product # NoDoc
             THEN <<line>> \o cart_items_live_price(Tail(items))
             ELSE cart_items_live_price(Tail(items))

RECURSIVE cart_items(_)
cart_items(items) ==
    IF items = <<>> THEN <<>>
    ELSE LET item == Head(items)
             product == FindOne({p \in products : p["_id"] = item.product_id})
             original_price == IF "original_unit_price" \in DOMAIN item
                               THEN item.original_unit_price ELSE product.price
             final_price == IF "final_unit_price" \in DOMAIN item
                            THEN item.final_unit_price ELSE product.price
             quantity == item.quantity
             line == [product_id |-> item.product_id,
                      quantity |-> quantity,
                      original_unit_price |-> original_price,
                      final_unit_price |-> final_price,
                      discount_details |-> item.discount_details,
                      bundle_group_id |-> item.bundle_group_id,
                      item_subtotal |-> final_price * quantity,
                      item_discount |-> (original_price - final_price) * quantity,
                      product |-> serialize_doc(product)]
         IN  IF product # NoDoc THEN <<line>> \o cart_items(Tail(items))
             ELSE cart_items(Tail(items))

RECURSIVE SumSubtotal(_)
SumSubtotal(lines) ==
    IF lines = <<>> THEN 0
    ELSE Head(lines).original_unit_price * Head(lines).quantity
         + SumSubtotal(Tail(lines))

RECURSIVE SumDiscount(_)
SumDiscount(lines) ==
    IF lines = <<>> THEN 0
    ELSE Head(lines).item_discount + SumDiscount(Tail(lines))

\* Totals that round subtotal and discount before subtracting.
cart_totals_rounding_first(user_id, lines) ==
    [user_id |-> user_id,
     items |-> lines,
     subtotal |-> round2(SumSubtotal(lines)),
     total_discount |-> round2(SumDiscount(lines)),
     total |-> round2(SumSubtotal(lines)) - round2(SumDiscount(lines))]

cart_totals(user_id, lines) ==
    [user_id |-> user_id,
     items |-> lines,
     subtotal |-> round2(SumSubtotal(lines)),
     total_discount |-> round2(SumDiscount(lines)),
     total |-> round2(SumSubtotal(lines) - SumDiscount(lines))]

\* A cart read that also drops the stored lines whose product is gone.
get_cart_pruning(req) ==
    LET r == get_current_user(req)
        cart == CartOf(r.user.id)
        status == IF r.user = NoDoc THEN 401 ELSE 200
        Known(item) == \E p \in products : p["_id"] = item.product_id
    IN  /\ sessions' = r.sessions
        /\ carts' = IF status = 401 \/ cart = NoDoc THEN carts
                    ELSE (carts \ {cart}) \cup
                         {[cart EXCEPT !.items = SelectSeq(@, Known)]}
        /\ resp' = Response("get_cart", req, r, status,
                            IF status = 401 THEN NoDoc
                            ELSE IF cart = NoDoc THEN cart_totals(r.user.id, <<>>)
                            ELSE cart_totals(r.user.id, cart_items(cart.items)))
        /\ sent' = NoBroadcast
        /\ UNCHANGED <<rate_limit_store, subscription_requests, calls, pull, client, now, users, memberVars, catalogVars, orders, products>>

get_cart(req) ==
    LET r == get_current_user(req)
        cart == CartOf(r.user.id)
        status == IF r.user = NoDoc THEN 401 ELSE 200
    IN  /\ sessions' = r.sessions
        /\ resp' = Response("get_cart", req, r, status,
                            IF status = 401 THEN NoDoc
                            ELSE IF cart = NoDoc THEN cart_totals(r.user.id, <<>>)
                            ELSE cart_totals(r.user.id, cart_items(cart.items)))
        /\ sent' = NoBroadcast
        /\ UNCHANGED <<rate_limit_store, subscription_requests, calls, pull, client, now, users, memberVars, catalogVars, shopVars>>

\* Merging that looks at the product only, whatever the bundle group.
\* What a query or .get() reads from a stored line; nothing when the
\* field, or the whole line, is absent.
ProductOf(line) == IF "product_id" \in DOMAIN line THEN line.product_id ELSE None

GroupOf(line) ==
    IF "bundle_group_id" \in DOMAIN line THEN line.bundle_group_id ELSE None

existing_idx_ignoring_group(items, item) ==
    LET matching == {idx \in DOMAIN items :
                        items[idx].product_id = item.product_id}
    IN  IF matching = {} THEN 0
        ELSE CHOOSE idx \in matching : \A j \in matching : idx <= j

\* The line an existing-cart add merges into: 0 when there is none.
existing_idx(items, item) ==
    LET matching == {idx \in DOMAIN items :
                        /\ ProductOf(items[idx]) = item.product_id
                        /\ IF item.bundle_group_id # None
                           THEN GroupOf(items[idx]) = item.bundle_group_id
                           ELSE GroupOf(items[idx]) = None}
    IN  IF matching = {} THEN 0
        ELSE CHOOSE idx \in matching : \A j \in matching : idx <= j

add_to_cart(req, item) ==
    LET r == get_current_user(req)
        product == FindOne({p \in products : p["_id"] = item.product_id})
        status == IF r.user = NoDoc THEN 401
                  ELSE IF product = NoDoc THEN 404 ELSE 200
        original_price == product.price
        pct == item.bundle_discount_percentage
        bundle == pct # NoPrice /\ pct > 0
        final_price == IF bundle
                       THEN 10 * RoundHalfEven(original_price * (100 - pct), 1000)
                       ELSE round2(original_price)
        cart_item == [product_id |-> item.product_id,
                      quantity |-> item.quantity,
                      original_unit_price |-> original_price,
                      final_unit_price |-> final_price,
                      discount_details |->
                          IF bundle
                          THEN [discount_type |-> "bundle", discount_value |-> pct,
                                discount_source_id |-> item.bundle_offer_id]
                          ELSE [discount_type |-> "none", discount_value |-> 0],
                      bundle_group_id |-> item.bundle_group_id,
                      added_at |-> now]
        cart == CartOf(r.user.id)
        idx == existing_idx(cart.items, item)
    IN  /\ status = 200 =>
              IF cart = NoDoc THEN TRUE
              ELSE IF idx # 0
                   THEN cart.items[idx].quantity + item.quantity <= MaxLineQty
                   ELSE Len(cart.items) < MaxLines
        /\ sessions' = r.sessions
        /\ carts' =
              IF status # 200 THEN carts
              ELSE IF cart = NoDoc
              THEN carts \cup {[_id |-> CartIdFor(r.user.id), user_id |-> r.user.id,
                                items |-> <<cart_item>>, updated_at |-> now]}
              ELSE IF idx # 0
              THEN (carts \ {cart}) \cup
                   {[cart EXCEPT !.items[idx].quantity = @ + item.quantity,
                                 !.updated_at = now]}
              ELSE (carts \ {cart}) \cup
                   {[cart EXCEPT !.items = Append(@, cart_item), !.updated_at = now]}
        /\ resp' = Response("add_to_cart", req, r, status,
                            IF status = 200 THEN cart_item ELSE NoDoc)
        /\ sent' = NoBroadcast
        /\ UNCHANGED <<rate_limit_store, subscription_requests, calls, pull, client, now, users, memberVars, catalogVars, orders, products>>

update_cart(req, item) ==
    LET r == get_current_user(req)
        status == IF r.user = NoDoc THEN 401 ELSE 200
        cart == CartOf(r.user.id)
        Keep(line) == ProductOf(line) # item.product_id
        hits == {idx \in DOMAIN cart.items :
                    ProductOf(cart.items[idx]) = item.product_id}
        first == CHOOSE idx \in hits : \A j \in hits : idx <= j
    IN  /\ sessions' = r.sessions
        /\ carts' =
              IF status # 200 \/ cart = NoDoc THEN carts
              ELSE IF item.quantity <= 0
              THEN (carts \ {cart}) \cup
                   {[cart EXCEPT !.items = SelectSeq(@, Keep), !.updated_at = now]}
              ELSE IF hits = {} THEN carts
              ELSE (carts \ {cart}) \cup
                   {[cart EXCEPT !.items[first].quantity = item.quantity,
                                 !.updated_at = now]}
        /\ resp' = Response("update_cart", req, r, status,
                            IF status = 200 THEN [message |-> "Updated"] ELSE NoDoc)
        /\ sent' = NoBroadcast
        /\ UNCHANGED <<rate_limit_store, subscription_requests, calls, pull, client, now, users, memberVars, catalogVars, orders, products>>

add_to_cart_enhanced(req, item) ==
    LET r == get_current_user(req)
        product == FindOne({p \in products : p["_id"] = item.product_id})
        status == IF r.user = NoDoc THEN 401
                  ELSE IF product = NoDoc THEN 404 ELSE 200
        Or(price, default) == IF price = NoPrice \/ price = 0 THEN default ELSE price
        cart_item == [product_id |-> item.product_id,
                      quantity |-> item.quantity,
                      original_unit_price |->
                          Or(item.original_unit_price, product.price),
                      final_unit_price |->
                          Or(item.final_unit_price, product.price),
                      discount_details |-> NoDoc,
                      bundle_group_id |-> item.bundle_group_id,
                      added_at |-> now]
        cart == CartOf(r.user.id)
    IN  /\ (status = 200 /\ cart # NoDoc) => Len(cart.items) < MaxLines
        /\ sessions' = r.sessions
        /\ carts' =
              IF status # 200 THEN carts
              ELSE IF cart = NoDoc
              THEN carts \cup {[_id |-> CartIdFor(r.user.id), user_id |-> r.user.id,
                                items |-> <<cart_item>>, updated_at |-> now]}
              ELSE (carts \ {cart}) \cup
                   {[cart EXCEPT !.items = Append(@, cart_item), !.updated_at = now]}
        /\ resp' = Response("add_to_cart_enhanced", req, r, status,
                            IF status = 200 THEN cart_item ELSE NoDoc)
        /\ sent' = NoBroadcast
        /\ UNCHANGED <<rate_limit_store, subscription_requests, calls, pull, client, now, users, memberVars, catalogVars, orders, products>>

clear_cart(req) ==
    LET r == get_current_user(req)
        status == IF r.user = NoDoc THEN 401 ELSE 200
        cart == CartOf(r.user.id)
    IN  /\ sessions' = r.sessions
        /\ carts' = IF status # 200 \/ cart = NoDoc THEN carts
                    ELSE (carts \ {cart}) \cup
                         {[cart EXCEPT !.items = <<>>, !.updated_at = now]}
        /\ resp' = Response("clear_cart", req, r, status,
                            IF status = 200 THEN [message |-> "Cleared"] ELSE NoDoc)
        /\ sent' = NoBroadcast
        /\ UNCHANGED <<rate_limit_store, subscription_requests, calls, pull, client, now, users, memberVars, catalogVars, orders, products>>

\* The owner imports one document into the carts collection.
import_database(req, doc, merge_strategy) ==
    LET r == get_current_user(req)
        status == IF r.user = NoDoc \/ r.user.email # PRIMARY_OWNER_EMAIL
                  THEN 403 ELSE 200
        existing == FindOne({c \in carts : c["_id"] = doc["_id"]})
        skipped == existing # NoDoc /\ merge_strategy = "skip_existing"
    IN  /\ sessions' = r.sessions
        /\ carts' = IF status # 200 \/ skipped THEN carts
                    ELSE (carts \ {existing}) \cup {doc}
        /\ resp' = Response("import_database", req, r, status,
                            IF status # 200 THEN NoDoc
                            ELSE [imported |-> IF skipped THEN 0 ELSE 1,
                                  skipped |-> IF skipped THEN 1 ELSE 0])
        /\ sent' = NoBroadcast
        /\ UNCHANGED <<rate_limit_store, subscription_requests, calls, pull, client, now, users, memberVars, catalogVars, orders, products>>

\* The owner is logged in on t1; nobody holds t2.  One product is on sale.
InitCart ==
    /\ now = 0
    /\ users = {UserDoc(PRIMARY_OWNER_EMAIL, NoTime)}
    /\ sessions = {SessionDoc("t1", PRIMARY_OWNER_EMAIL, MaxTime + SESSION_TTL)}
    /\ partners = {} /\ admins = {} /\ subscribers = {}
    /\ car_brands = {} /\ car_models = {} /\ product_brands = {} /\ categories = {}
    /\ orders = {}
    /\ products = {ProductDoc("p1", 100000)}
    /\ carts = {}
    /\ resp = NoResponse
    /\ pull = NoPull
    /\ client = NoClient
    /\ calls = NoCalls
    /\ subscription_requests = {}
    /\ sent = NoBroadcast
    /\ rate_limit_store = NoCallsRecorded

\* Bodies of POST /cart/add: a plain add, a bundle add at 20 percent, and an
\* add of a product that is not in the catalog.
CartItemAdd ==
    {[product_id |-> "p1", quantity |-> q, bundle_group_id |-> None,
      bundle_offer_id |-> None, bundle_discount_percentage |-> NoPrice] :
        q \in 1..MaxQty}
    \cup {[product_id |-> "p1", quantity |-> q, bundle_group_id |-> "g1",
           bundle_offer_id |-> "offer1", bundle_discount_percentage |-> 20] :
             q \in 1..MaxQty}
    \cup {[product_id |-> "p0", quantity |-> 1, bundle_group_id |-> None,
           bundle_offer_id |-> None, bundle_discount_percentage |-> NoPrice]}

\* Bodies of POST /cart/add-enhanced: a final price above the product's
\* price, and a pair of sub-cent prices.
CartItemAddEnhanced ==
    {[product_id |-> "p1", quantity |-> 1, bundle_group_id |-> None,
      original_unit_price |-> NoPrice, final_unit_price |-> 120000],
     [product_id |-> "p1", quantity |-> 1, bundle_group_id |-> None,
      original_unit_price |-> 375, final_unit_price |-> 250]}

\* A cart document for the owner whose only line names a product that is not
\* in the catalog.
ImportedCarts ==
    {[_id |-> CartIdFor(UserIdFor(PRIMARY_OWNER_EMAIL)),
      user_id |-> UserIdFor(PRIMARY_OWNER_EMAIL),
      items |-> <<[product_id |-> "p0", quantity |-> 1,
                   original_unit_price |-> 100000, final_unit_price |-> 80000,
                   discount_details |-> NoDoc, bundle_group_id |-> None,
                   added_at |-> 0]>>,
      updated_at |-> 0]}

NextCart ==
    \/ \E r \in Callers : get_cart(r)
    \/ \E r \in Callers, item \in CartItemAdd : add_to_cart(r, item)
    \/ \E r \in Callers, q \in 0..MaxQty :
          update_cart(r, [product_id |-> "p1", quantity |-> q])
    \/ \E r \in Callers, item \in CartItemAddEnhanced : add_to_cart_enhanced(r, item)
    \/ \E r \in Callers : clear_cart(r)
    \/ \E r \in Callers, doc \in ImportedCarts,
          strategy \in {"skip_existing", "replace"} :
          import_database(r, doc, strategy)

SpecCart == InitCart /\ [][NextCart]_vars

----------------------------------------------------------------------------
(* Cart lines while the catalog price moves *)

\* The document with one more field, or with that field replaced.
WithField(doc, name, value) ==
    [f \in DOMAIN doc \cup {name} |-> IF f = name THEN value ELSE doc[f]]

\* Prices a product can be given: 100, 90 and a sub-cent 0.375.
Prices == {100000, 90000, 375}

\* A product's price and stock are edited.
update_product(product_id, price, stock_quantity) ==
    /\ \E p \in products : p["_id"] = product_id
    /\ products' = {IF p["_id"] = product_id
                    THEN WithField([p EXCEPT !.price = price],
                                   "stock_quantity", stock_quantity)
                    ELSE p : p \in products}
    /\ resp' = NoResponse
    /\ sent' = NoBroadcast
    /\ UNCHANGED <<rate_limit_store, subscription_requests, calls, pull, client, now, users, sessions, memberVars, catalogVars, orders, carts>>

NextPricing ==
    \/ \E price \in Prices : update_product("p1", price, MaxQty)
    \/ \E r \in Callers, item \in CartItemAdd : add_to_cart(r, item)
    \/ \E r \in Callers : get_cart(r)
    \/ \E r \in Callers : clear_cart(r)

SpecPricing == InitCart /\ [][NextPricing]_vars

----------------------------------------------------------------------------
(* Editing a cart: merging adds, quantity updates, voiding a bundle *)

NoDiscount == [discount_type |-> "none", discount_value |-> 0]

\* Voiding that drops the lines of the group.
void_items_removing(items, bundle_group_id) ==
    LET Keep(item) == item.bundle_group_id # bundle_group_id IN
    SelectSeq(items, Keep)

void_items(items, bundle_group_id) ==
    [i \in DOMAIN items |->
        IF GroupOf(items[i]) = bundle_group_id
        THEN [items[i] EXCEPT
                 !.final_unit_price =
                     IF "original_unit_price" \in DOMAIN items[i]
                     THEN items[i].original_unit_price ELSE @,
                 !.discount_details = NoDiscount,
                 !.bundle_group_id = None]
        ELSE items[i]]

void_bundle_discount(req, bundle_group_id) ==
    LET r == get_current_user(req)
        status == IF r.user = NoDoc THEN 401 ELSE 200
        cart == CartOf(r.user.id)
    IN  /\ sessions' = r.sessions
        /\ carts' = IF status # 200 \/ cart = NoDoc THEN carts
                    ELSE (carts \ {cart}) \cup
                         {[cart EXCEPT !.items = void_items(@, bundle_group_id),
                                       !.updated_at = now]}
        /\ resp' = Response("void_bundle_discount", req, r, status,
                            IF status # 200 THEN NoDoc
                            ELSE IF cart = NoDoc THEN [message |-> "Cart not found"]
                            ELSE [message |-> "Bundle voided"])
        /\ sent' = NoBroadcast
        /\ UNCHANGED <<rate_limit_store, subscription_requests, calls, pull, client, now, users, memberVars, catalogVars, orders, products>>

\* Bodies of POST /cart/add used while editing: plain adds of 1 to 3 pieces
\* and bundle adds in two groups.
EditAdds ==
    {[product_id |-> "p1", quantity |-> q, bundle_group_id |-> None,
      bundle_offer_id |-> None, bundle_discount_percentage |-> NoPrice] :
        q \in 1..(MaxQty + 1)}
    \cup {[product_id |-> "p1", quantity |-> q, bundle_group_id |-> "g1",
           bundle_offer_id |-> "offer1", bundle_discount_percentage |-> 20] :
             q \in 1..MaxQty}
    \cup {[product_id |-> "p1", quantity |-> 1, bundle_group_id |-> "g2",
           bundle_offer_id |-> "offer1", bundle_discount_percentage |-> 20]}

NextEdit ==
    \/ \E r \in Callers, item \in EditAdds : add_to_cart(r, item)
    \/ \E r \in Callers, pid \in {"p1", "p0"}, q \in 0..MaxQty :
          update_cart(r, [product_id |-> pid, quantity |-> q])
    \/ \E r \in Callers, g \in {"g1", "g2"} : void_bundle_discount(r, g)
    \/ \E r \in Callers : clear_cart(r)

SpecEdit == InitCart /\ [][NextEdit]_vars

----------------------------------------------------------------------------
(* Stock validation of a cart *)

\* product.get("stock_quantity", 0)
StockOf(product) ==
    IF "stock_quantity" \in DOMAIN product THEN product.stock_quantity ELSE 0

NameOf(product) == IF "name" \in DOMAIN product THEN product.name ELSE None

\* Classification that also rejects a line asking for exactly the stock.
classify_line_off_by_one(item) ==
    LET product == FindOne({p \in products : p["_id"] = item.product_id}) IN
    IF product = NoDoc
    THEN [invalid |-> TRUE,
          entry |-> [product_id |-> item.product_id,
                     reason |-> "product_not_found",
                     requested_quantity |-> item.quantity,
                     available_stock |-> 0]]
    ELSE IF StockOf(product) <= item.quantity
    THEN [invalid |-> TRUE,
          entry |-> [product_id |-> item.product_id,
                     product_name |-> NameOf(product),
                     reason |-> "insufficient_stock",
                     requested_quantity |-> item.quantity,
                     available_stock |-> StockOf(product)]]
    ELSE [invalid |-> FALSE,
          entry |-> [product_id |-> item.product_id,
                     product_name |-> NameOf(product),
                     requested_quantity |-> item.quantity,
                     available_stock |-> StockOf(product)]]

classify_line(item) ==
    LET product == FindOne({p \in products : p["_id"] = item.product_id}) IN
    IF product = NoDoc
    THEN [invalid |-> TRUE,
          entry |-> [product_id |-> item.product_id,
                     reason |-> "product_not_found",
                     requested_quantity |-> item.quantity,
                     available_stock |-> 0]]
    ELSE IF StockOf(product) < item.quantity
    THEN [invalid |-> TRUE,
          entry |-> [product_id |-> item.product_id,
                     product_name |-> NameOf(product),
                     reason |-> "insufficient_stock",
                     requested_quantity |-> item.quantity,
                     available_stock |-> StockOf(product)]]
    ELSE [invalid |-> FALSE,
          entry |-> [product_id |-> item.product_id,
                     product_name |-> NameOf(product),
                     requested_quantity |-> item.quantity,
                     available_stock |-> StockOf(product)]]

\* The entries of the lines classified invalid (or valid), in cart order.
RECURSIVE collect(_, _)
collect(items, invalid) ==
    IF items = <<>> THEN <<>>
    ELSE LET c == classify_line(Head(items)) IN
         (IF c.invalid = invalid THEN <<c.entry>> ELSE <<>>)
         \o collect(Tail(items), invalid)

stock_report(cart) ==
    IF cart = NoDoc \/ cart.items = <<>>
    THEN [valid |-> TRUE, invalid_items |-> <<>>, message |-> "Cart is empty"]
    ELSE [valid |-> collect(cart.items, TRUE) = <<>>,
          invalid_items |-> collect(cart.items, TRUE),
          valid_items |-> collect(cart.items, FALSE),
          total_items |-> Len(cart.items)]

validate_cart_stock(req) ==
    LET r == get_current_user(req)
        status == IF r.user = NoDoc THEN 401 ELSE 200
    IN  /\ sessions' = r.sessions
        /\ resp' = Response("validate_cart_stock", req, r, status,
                            IF status = 401 THEN NoDoc
                            ELSE stock_report(CartOf(r.user.id)))
        /\ sent' = NoBroadcast
        /\ UNCHANGED <<rate_limit_store, subscription_requests, calls, pull, client, now, users, memberVars, catalogVars, shopVars>>

\* Stock levels a product can be given.
Stocks == {0, 3, MaxLineQty}

NextStock ==
    \/ \E n \in Stocks : update_product("p1", 100000, n)
    \/ \E r \in Callers, item \in {a \in EditAdds : a.bundle_group_id = None} :
          add_to_cart(r, item)
    \/ \E r \in Callers, doc \in ImportedCarts,
          strategy \in {"skip_existing", "replace"} :
          import_database(r, doc, strategy)
    \/ \E r \in Callers : clear_cart(r)
    \/ \E r \in Callers : get_cart(r)
    \/ \E r \in Callers : validate_cart_stock(r)

SpecStock == InitCart /\ [][NextStock]_vars

----------------------------------------------------------------------------
(* Delta sync of the catalog tables *)

\* The delta that also returns what changed exactly at last_sync.
delta_of_inclusive(coll, last_sync_dt) ==
    [items |-> {serialize_doc(d) : d \in
                   {d \in coll :
                       /\ d.deleted_at = NoTime
                       /\ last_sync_dt # NoTime =>
                             ("updated_at" \in DOMAIN d
                              /\ d.updated_at >= last_sync_dt)}},
     deleted_ids |-> IF last_sync_dt = NoTime THEN {}
                     ELSE {d["_id"] : d \in
                              {d \in coll : d.deleted_at >= last_sync_dt}}]

\* One table's delta: the live records changed after last_sync_dt (all of
\* them without one) and the ids of the records deleted after it.
delta_of(coll, last_sync_dt) ==
    [items |-> {serialize_doc(d) : d \in
                   {d \in coll :
                       /\ d.deleted_at = NoTime
                       /\ last_sync_dt # NoTime =>
                             ("updated_at" \in DOMAIN d
                              /\ d.updated_at > last_sync_dt)}},
     deleted_ids |-> IF last_sync_dt = NoTime THEN {}
                     ELSE {d["_id"] : d \in
                              {d \in coll : d.deleted_at > last_sync_dt}}]

allowed_tables ==
    {"products", "categories", "car_brands", "car_models", "product_brands"}

SYNC_ALLOWED_TABLES ==
    {"car_brands", "car_models", "product_brands", "categories", "products"}

\* db[table]
Collection(table) ==
    CASE table = "products" -> products
      [] table = "categories" -> categories
      [] table = "car_brands" -> car_brands
      [] table = "car_models" -> car_models
      [] table = "product_brands" -> product_brands
      [] table = "users" -> users
      [] table = "sessions" -> sessions
      [] OTHER -> {}

\* str.strip() on the table names a client sends.
strip(name) ==
    CASE name = " categories" -> "categories"
      [] name = "users " -> "users"
      [] OTHER -> name

\* The tables a request names, as the pieces between the commas; none when
\* the parameter is absent or empty.
TableLists ==
    {<<>>, <<"car_models">>, <<"car_models", "users">>,
     <<"sessions", " categories">>, <<"users ">>}

Pieces(tables) == {tables[i] : i \in DOMAIN tables}

\* The bulk delta for every requested name, whitelisted or not.
full_delta_data_unfiltered(requested, last_sync_dt) ==
    [table \in {strip(t) : t \in requested} |->
        delta_of(Collection(table), last_sync_dt)]

full_delta_data(requested, last_sync_dt) ==
    [table \in {strip(t) : t \in requested} \cap allowed_tables |->
        delta_of(Collection(table), last_sync_dt)]

get_categories_delta(last_sync) ==
    LET d == delta_of(categories, parse_timestamp(last_sync)) IN
    /\ resp' = Response("get_categories_delta", [cookie |-> None, bearer |-> None],
                        Unguarded, 200,
                        [categories |-> d.items,
                         deleted_ids |-> d.deleted_ids,
                         server_time |-> isoformat(now),
                         is_delta |-> last_sync # None,
                         params |-> [last_sync |-> last_sync]])
    /\ sent' = NoBroadcast
    /\ UNCHANGED <<rate_limit_store, subscription_requests, calls, pull, client, now, users, sessions, memberVars, catalogVars, shopVars>>

get_full_delta(last_sync, tables) ==
    LET requested_tables == IF tables # <<>> THEN Pieces(tables) ELSE allowed_tables
    IN
    /\ resp' = Response("get_full_delta", [cookie |-> None, bearer |-> None],
                        Unguarded, 200,
                        [server_time |-> isoformat(now),
                         is_delta |-> last_sync # None,
                         data |-> full_delta_data(requested_tables,
                                                  parse_timestamp(last_sync)),
                         params |-> [last_sync |-> last_sync, tables |-> tables]])
    /\ sent' = NoBroadcast
    /\ UNCHANGED <<rate_limit_store, subscription_requests, calls, pull, client, now, users, sessions, memberVars, catalogVars, shopVars>>

\* Milliseconds since the epoch of an instant.
get_timestamp_ms(t) == t * 1000

\* What a client can send as last_pulled_at: nothing, or milliseconds.
PulledAts == {NoTime} \cup {get_timestamp_ms(t) : t \in 0..(MaxTime - 1)}

sync_pull(last_pulled_at, table_list) ==
    LET tables == IF table_list = <<>>
                  THEN SYNC_ALLOWED_TABLES ELSE Pieces(table_list)
        since == last_pulled_at # NoTime /\ last_pulled_at # 0
        Changed(d) == /\ d.deleted_at = NoTime
                      /\ since => ("updated_at" \in DOMAIN d
                                   /\ d.updated_at * 1000 > last_pulled_at)
    IN
    /\ resp' = Response("sync_pull", [cookie |-> None, bearer |-> None],
                        Unguarded, 200,
                        [data |-> [table \in tables \cap SYNC_ALLOWED_TABLES |->
                                      {serialize_doc(d) : d \in
                                          {d \in Collection(table) : Changed(d)}}],
                         timestamp |-> get_timestamp_ms(now),
                         params |-> [last_pulled_at |-> last_pulled_at,
                                     tables |-> table_list]])
    /\ sent' = NoBroadcast
    /\ UNCHANGED <<rate_limit_store, subscription_requests, calls, pull, client, now, users, sessions, memberVars, catalogVars, shopVars>>

\* Somebody is logged in, so that users and sessions hold records.
InitDelta ==
    /\ now = 0
    /\ users = {UserDoc("e1", NoTime)}
    /\ sessions = {SessionDoc("t2", "e1", MaxTime + SESSION_TTL)}
    /\ partners = {} /\ admins = {} /\ subscribers = {}
    /\ car_brands = {} /\ car_models = {} /\ product_brands = {} /\ categories = {}
    /\ orders = {} /\ products = {} /\ carts = {}
    /\ resp = NoResponse
    /\ pull = NoPull
    /\ client = NoClient
    /\ calls = NoCalls
    /\ subscription_requests = {}
    /\ sent = NoBroadcast
    /\ rate_limit_store = NoCallsRecorded

Anonymous == [cookie |-> None, bearer |-> None]

NextDelta ==
    \/ Tick
    \/ create_category(Anonymous, "n1")
    \/ \E id \in CatalogIds("cat_") : delete_category(Anonymous, id)
    \/ create_car_model(Anonymous, "n1")
    \/ \E id \in CatalogIds("cm_") : update_car_model(Anonymous, id, "n2")
    \/ \E id \in CatalogIds("cm_") : delete_car_model(Anonymous, id)
    \/ \E ts \in Timestamps \cup {None} : get_categories_delta(ts)
    \/ \E ts \in Timestamps \cup {None}, tables \in TableLists :
          get_full_delta(ts, tables)
    \/ \E ms \in PulledAts, tables \in TableLists : sync_pull(ms, tables)

SpecDelta == InitDelta /\ [][NextDelta]_vars

----------------------------------------------------------------------------
(* Delta sync, one database call at a time: GET /delta/car-models and the
   client that keeps a copy of the table *)

\* The first awaited query: the live records changed after last_sync. The
\* client sends the server_time of the response it applied last.
get_car_models_delta_find ==
    /\ pull.stage = "idle"
    /\ pull' = [stage |-> "found",
                last_sync |-> client.since,
                items |-> delta_of(car_models,
                                   parse_timestamp(client.since)).items,
                deleted_ids |-> {},
                queried_at |-> now,
                seen |-> car_models,
                server_time |-> None]
    /\ resp' = NoResponse
    /\ sent' = NoBroadcast
    /\ UNCHANGED <<rate_limit_store, subscription_requests, calls, client, now, users, sessions, memberVars, catalogVars, shopVars>>

\* The second awaited query: the ids deleted after last_sync.
get_car_models_delta_find_deleted ==
    /\ pull.stage = "found"
    /\ pull' = [pull EXCEPT
                  !.stage = "read",
                  !.deleted_ids = delta_of(car_models,
                                           parse_timestamp(pull.last_sync)).deleted_ids]
    /\ resp' = NoResponse
    /\ sent' = NoBroadcast
    /\ UNCHANGED <<rate_limit_store, subscription_requests, calls, client, now, users, sessions, memberVars, catalogVars, shopVars>>

\* The return statement: server_time is read from the clock here.
get_car_models_delta_return ==
    /\ pull.stage = "read"
    /\ pull' = [pull EXCEPT !.stage = "done", !.server_time = isoformat(now)]
    /\ resp' = Response("get_car_models_delta", Anonymous, Unguarded, 200,
                        [car_models |-> pull.items,
                         deleted_ids |-> pull.deleted_ids,
                         server_time |-> isoformat(now),
                         is_delta |-> pull.last_sync # None,
                         params |-> [last_sync |-> pull.last_sync]])
    /\ sent' = NoBroadcast
    /\ UNCHANGED <<rate_limit_store, subscription_requests, calls, client, now, users, sessions, memberVars, catalogVars, shopVars>>

\* The replica after the upserts and then the deletes of one response.
apply_delta(replica, items, deleted_ids) ==
    {x \in {r \in replica : \A y \in items : y.id # r.id} \cup items :
        x.id \notin deleted_ids}

\* The client applies the response and keeps its server_time as next since.
client_apply ==
    /\ pull.stage = "done"
    /\ client' = [replica |-> apply_delta(client.replica, pull.items,
                                          pull.deleted_ids),
                  since |-> pull.server_time]
    /\ pull' = [pull EXCEPT !.stage = "idle"]
    /\ resp' = NoResponse
    /\ sent' = NoBroadcast
    /\ UNCHANGED <<rate_limit_store, subscription_requests, calls, now, users, sessions, memberVars, catalogVars, shopVars>>

NextPull ==
    \/ Tick
    \/ create_car_model(Anonymous, "n1")
    \/ \E id \in CatalogIds("cm_") : update_car_model(Anonymous, id, "n2")
    \/ \E id \in CatalogIds("cm_") : delete_car_model(Anonymous, id)
    \/ get_car_models_delta_find
    \/ get_car_models_delta_find_deleted
    \/ get_car_models_delta_return
    \/ client_apply

SpecPull == InitDelta /\ [][NextPull]_vars

----------------------------------------------------------------------------
(* Cart requests with any quantity the schema lets through *)

\* quantity is a plain int in CartItemAdd and CartItemAddEnhanced: zero is
\* let through as any positive number is.
Quantities == 0..MaxQty

LineAdds ==
    {[product_id |-> "p1", quantity |-> q, bundle_group_id |-> g,
      bundle_offer_id |-> IF g = None THEN None ELSE "offer1",
      bundle_discount_percentage |-> IF g = None THEN NoPrice ELSE 20] :
        q \in Quantities, g \in {None, "g1"}}

LineAddsEnhanced ==
    {[product_id |-> "p1", quantity |-> q, bundle_group_id |-> g,
      original_unit_price |-> NoPrice, final_unit_price |-> NoPrice] :
        q \in Quantities, g \in {None, "g1"}}

NextLines ==
    \/ \E r \in Callers, item \in LineAdds : add_to_cart(r, item)
    \/ \E r \in Callers, item \in LineAddsEnhanced : add_to_cart_enhanced(r, item)
    \/ \E r \in Callers, q \in Quantities :
          update_cart(r, [product_id |-> "p1", quantity |-> q])
    \/ \E r \in Callers : void_bundle_discount(r, "g1")
    \/ \E r \in Callers : clear_cart(r)

SpecLines == InitCart /\ [][NextLines]_vars

----------------------------------------------------------------------------
(* Cart requests that overlap: each handler is cut at the await between its
   read of the cart and its write *)

\* The line POST /cart/add builds before it reads the cart.
new_cart_item(item, product) ==
    LET original_price == product.price
        pct == item.bundle_discount_percentage
        bundle == pct # NoPrice /\ pct > 0
    IN  [product_id |-> item.product_id,
         quantity |-> item.quantity,
         original_unit_price |-> original_price,
         final_unit_price |->
             IF bundle THEN 10 * RoundHalfEven(original_price * (100 - pct), 1000)
             ELSE round2(original_price),
         discount_details |->
             IF bundle
             THEN [discount_type |-> "bundle", discount_value |-> pct,
                   discount_source_id |-> item.bundle_offer_id]
             ELSE [discount_type |-> "none", discount_value |-> 0],
         bundle_group_id |-> item.bundle_group_id,
         added_at |-> now]

\* The line POST /cart/add-enhanced builds before it reads the cart.
new_cart_item_enhanced(item, product) ==
    LET Or(price, default) == IF price = NoPrice \/ price = 0 THEN default ELSE price
    IN  [product_id |-> item.product_id,
         quantity |-> item.quantity,
         original_unit_price |-> Or(item.original_unit_price, product.price),
         final_unit_price |-> Or(item.final_unit_price, product.price),
         discount_details |-> NoDoc,
         bundle_group_id |-> item.bundle_group_id,
         added_at |-> now]

\* insert_one gives the cart a fresh uuid4 as _id.
NewCartId(user_id) ==
    IF \E c \in carts : c["_id"] = CartIdFor(user_id)
    THEN CartIdFor(user_id) \o "'" ELSE CartIdFor(user_id)

\* The loop over cart["items"] subscripts each line with "product_id" until
\* it breaks at the line it merges into: a line without that key, or a null
\* in the list, before that point makes the handler raise.
LoopRaises(items, item) ==
    \E j \in DOMAIN items :
        /\ "product_id" \notin DOMAIN items[j]
        /\ existing_idx(items, item) \in {0} \cup (j + 1)..Len(items)

\* $inc of items.<idx>.quantity cannot descend into a null element.
IncFails(items, idx) == idx <= Len(items) /\ items[idx] = NoDoc

\* $inc of items.<idx>.quantity by n: the database adds n to the line at that
\* position whatever it is, and where the list is too short it pads it with
\* nulls and creates the element holding only the quantity.
inc_quantity(items, idx, n) ==
    IF idx <= Len(items)
    THEN [items EXCEPT ![idx] = [@ EXCEPT !.quantity = @ + n]]
    ELSE items \o [k \in 1..(idx - Len(items) - 1) |-> NoDoc]
               \o <<[quantity |-> n]>>

\* The cart update_one writes to: the first cart of the user, if any.
Written(user_id, items) ==
    LET cart == CartOf(user_id) IN
    IF cart = NoDoc THEN carts
    ELSE (carts \ {cart}) \cup {[cart EXCEPT !.items = items, !.updated_at = now]}

\* POST /cart/add up to and including find_one on carts and the loop over
\* the lines it returned.
add_to_cart_find(c, req, item) ==
    LET r == get_current_user(req)
        product == FindOne({p \in products : p["_id"] = item.product_id})
        status == IF r.user = NoDoc THEN 401
                  ELSE IF product = NoDoc THEN 404 ELSE 200
        cart == CartOf(r.user.id)
    IN  /\ calls[c].op = "idle"
        /\ sessions' = r.sessions
        /\ calls' = IF status # 200 THEN calls
                    ELSE [calls EXCEPT ![c] =
                             [op |-> "add_to_cart", req |-> req, user |-> r.user,
                              item |-> item,
                              cart_item |-> new_cart_item(item, product),
                              found |-> cart # NoDoc,
                              raises |-> cart # NoDoc
                                         /\ LoopRaises(cart.items, item),
                              existing_idx |->
                                  IF cart = NoDoc \/ LoopRaises(cart.items, item)
                                  THEN 0 ELSE existing_idx(cart.items, item)]]
        /\ resp' = IF status # 200
                   THEN Response("add_to_cart", req, r, status, NoDoc)
                   ELSE NoResponse
        /\ sent' = NoBroadcast
        /\ UNCHANGED <<rate_limit_store, subscription_requests, pull, client, now, users, memberVars, catalogVars, shopVars>>

\* POST /cart/add from there: insert_one or update_one.
add_to_cart_write(c) ==
    LET call == calls[c]
        user_id == call.user.id
        stored == CartOf(user_id)
        idx == call.existing_idx
        fails == ~call.raises /\ call.found /\ idx # 0 /\ stored # NoDoc
                 /\ IncFails(stored.items, idx)
        status == IF call.raises \/ fails THEN 500 ELSE 200
    IN  /\ call.op = "add_to_cart"
        /\ (status = 200 /\ call.found /\ stored # NoDoc) =>
              IF idx = 0 THEN Len(stored.items) < MaxLines
              ELSE /\ idx <= MaxLines
                   /\ idx <= Len(stored.items) =>
                         stored.items[idx].quantity + call.item.quantity
                             <= MaxQty
        /\ carts' =
              IF status # 200 THEN carts
              ELSE IF ~call.found
              THEN carts \cup {[_id |-> NewCartId(user_id), user_id |-> user_id,
                                items |-> <<call.cart_item>>, updated_at |-> now]}
              ELSE IF stored = NoDoc THEN carts
              ELSE IF idx # 0
              THEN Written(user_id,
                           inc_quantity(stored.items, idx, call.item.quantity))
              ELSE Written(user_id, Append(stored.items, call.cart_item))
        /\ calls' = [calls EXCEPT ![c] = NoCall]
        /\ resp' = Response("add_to_cart", call.req, [user |-> call.user], status,
                            IF status = 200 THEN call.cart_item ELSE NoDoc)
        /\ sent' = NoBroadcast
        /\ UNCHANGED <<rate_limit_store, subscription_requests, pull, client, now, users, sessions, memberVars, catalogVars,
                       orders, products>>

\* POST /cart/add-enhanced up to and including find_one on carts.
add_to_cart_enhanced_find(c, req, item) ==
    LET r == get_current_user(req)
        product == FindOne({p \in products : p["_id"] = item.product_id})
        status == IF r.user = NoDoc THEN 401
                  ELSE IF product = NoDoc THEN 404 ELSE 200
    IN  /\ calls[c].op = "idle"
        /\ sessions' = r.sessions
        /\ calls' = IF status # 200 THEN calls
                    ELSE [calls EXCEPT ![c] =
                             [op |-> "add_to_cart_enhanced", req |-> req,
                              user |-> r.user, item |-> item,
                              cart_item |-> new_cart_item_enhanced(item, product),
                              found |-> CartOf(r.user.id) # NoDoc]]
        /\ resp' = IF status # 200
                   THEN Response("add_to_cart_enhanced", req, r, status, NoDoc)
                   ELSE NoResponse
        /\ sent' = NoBroadcast
        /\ UNCHANGED <<rate_limit_store, subscription_requests, pull, client, now, users, memberVars, catalogVars, shopVars>>

\* POST /cart/add-enhanced from there: insert_one or $push.
add_to_cart_enhanced_write(c) ==
    LET call == calls[c]
        user_id == call.user.id
        stored == CartOf(user_id)
    IN  /\ call.op = "add_to_cart_enhanced"
        /\ (call.found /\ stored # NoDoc) => Len(stored.items) < MaxLines
        /\ carts' =
              IF ~call.found
              THEN carts \cup {[_id |-> NewCartId(user_id), user_id |-> user_id,
                                items |-> <<call.cart_item>>, updated_at |-> now]}
              ELSE IF stored = NoDoc THEN carts
              ELSE Written(user_id, Append(stored.items, call.cart_item))
        /\ calls' = [calls EXCEPT ![c] = NoCall]
        /\ resp' = Response("add_to_cart_enhanced", call.req, [user |-> call.user],
                            200, call.cart_item)
        /\ sent' = NoBroadcast
        /\ UNCHANGED <<rate_limit_store, subscription_requests, pull, client, now, users, sessions, memberVars, catalogVars,
                       orders, products>>

\* DELETE /cart/void-bundle up to and including find_one on carts and the
\* loop that builds updated_items; item.get on a null in the list raises.
void_bundle_discount_find(c, req, bundle_group_id) ==
    LET r == get_current_user(req)
        status == IF r.user = NoDoc THEN 401 ELSE 200
        cart == CartOf(r.user.id)
    IN  /\ calls[c].op = "idle"
        /\ sessions' = r.sessions
        /\ calls' = IF status # 200 \/ cart = NoDoc THEN calls
                    ELSE [calls EXCEPT ![c] =
                             [op |-> "void_bundle_discount", req |-> req,
                              user |-> r.user,
                              bundle_group_id |-> bundle_group_id,
                              found |-> TRUE,
                              raises |-> \E j \in DOMAIN cart.items :
                                             cart.items[j] = NoDoc,
                              updated_items |->
                                  void_items(cart.items, bundle_group_id)]]
        /\ resp' = IF status # 200
                   THEN Response("void_bundle_discount", req, r, status, NoDoc)
                   ELSE IF cart = NoDoc
                   THEN Response("void_bundle_discount", req, r, 200,
                                 [message |-> "Cart not found"])
                   ELSE NoResponse
        /\ sent' = NoBroadcast
        /\ UNCHANGED <<rate_limit_store, subscription_requests, pull, client, now, users, memberVars, catalogVars, shopVars>>

\* DELETE /cart/void-bundle from there: the $set of the whole list.
void_bundle_discount_write(c) ==
    LET call == calls[c]
        raises == call.raises
        status == IF raises THEN 500 ELSE 200
    IN  /\ call.op = "void_bundle_discount"
        /\ carts' = IF raises THEN carts
                    ELSE Written(call.user.id, call.updated_items)
        /\ calls' = [calls EXCEPT ![c] = NoCall]
        /\ resp' = Response("void_bundle_discount", call.req, [user |-> call.user],
                            status,
                            IF raises THEN NoDoc
                            ELSE [message |-> "Bundle voided"])
        /\ sent' = NoBroadcast
        /\ UNCHANGED <<rate_limit_store, subscription_requests, pull, client, now, users, sessions, memberVars, catalogVars,
                       orders, products>>

\* The owner is logged in on t1; two products are on sale.
InitRace ==
    /\ now = 0
    /\ users = {UserDoc(PRIMARY_OWNER_EMAIL, NoTime)}
    /\ sessions = {SessionDoc("t1", PRIMARY_OWNER_EMAIL, MaxTime + SESSION_TTL)}
    /\ partners = {} /\ admins = {} /\ subscribers = {}
    /\ car_brands = {} /\ car_models = {} /\ product_brands = {} /\ categories = {}
    /\ orders = {}
    /\ products = {ProductDoc("p1", 100000), ProductDoc("p2", 90000)}
    /\ carts = {}
    /\ resp = NoResponse
    /\ pull = NoPull
    /\ client = NoClient
    /\ calls = NoCalls
    /\ subscription_requests = {}
    /\ sent = NoBroadcast
    /\ rate_limit_store = NoCallsRecorded

RaceAdds ==
    {[product_id |-> "p1", quantity |-> 1, bundle_group_id |-> None,
      bundle_offer_id |-> None, bundle_discount_percentage |-> NoPrice]}

RaceAddsEnhanced ==
    {[product_id |-> "p2", quantity |-> 1, bundle_group_id |-> None,
      original_unit_price |-> NoPrice, final_unit_price |-> NoPrice]}

\* The owner on the session t1, and a caller without a token.
RaceCallers == {[cookie |-> "t1", bearer |-> None], Anonymous}

\* An add and an enhanced add in progress at once, with updates and clears
\* in between.
NextRace ==
    \/ \E r \in RaceCallers, item \in RaceAdds : add_to_cart_find("c1", r, item)
    \/ add_to_cart_write("c1")
    \/ \E r \in RaceCallers, item \in RaceAddsEnhanced :
          add_to_cart_enhanced_find("c2", r, item)
    \/ add_to_cart_enhanced_write("c2")
    \/ \E r \in RaceCallers, pid \in {"p1", "p2"}, q \in {0, MaxQty} :
          update_cart(r, [product_id |-> pid, quantity |-> q])
    \/ \E r \in RaceCallers : clear_cart(r)

SpecRace == InitRace /\ [][NextRace]_vars

VoidAdds ==
    {[product_id |-> "p1", quantity |-> 1, bundle_group_id |-> g,
      bundle_offer_id |-> IF g = None THEN None ELSE "offer1",
      bundle_discount_percentage |-> IF g = None THEN NoPrice ELSE 20] :
        g \in {None, "g1"}}

\* One void-bundle in progress, with adds, updates and clears in between.
NextVoid ==
    \/ \E r \in Callers : void_bundle_discount_find("c1", r, "g1")
    \/ void_bundle_discount_write("c1")
    \/ \E r \in Callers, item \in VoidAdds : add_to_cart(r, item)
    \/ \E r \in Callers, q \in 0..MaxQty :
          update_cart(r, [product_id |-> "p1", quantity |-> q])
    \/ \E r \in Callers : clear_cart(r)

SpecVoid == InitCart /\ [][NextVoid]_vars

----------------------------------------------------------------------------
(* Subscription requests: subscribers.py *)

MaxRequests == 1

Phones == {"ph1", "ph2"}

RequestIds == {"sr-" \o ToString(i) : i \in 1..MaxRequests} \cup {"missing"}

\* What a query on phone reads from a record; nothing when the field is
\* absent, as on the subscribers add_subscriber creates.
PhoneOf(doc) == IF "phone" \in DOMAIN doc THEN doc.phone ELSE None

\* POST /subscription-requests needs no session.  The notification it
\* leaves for the owner is outside the collections kept here.
create_subscription_request(email, phone) ==
    LET existing_request ==
            FindOne({q \in subscription_requests :
                        /\ (q.email = email \/ q.phone = phone)
                        /\ q.status \in {"pending", "approved"}
                        /\ q.deleted_at = NoTime})
        existing_subscriber ==
            FindOne({x \in subscribers :
                        /\ (x.email = email \/ PhoneOf(x) = phone)
                        /\ x.deleted_at = NoTime})
        id == "sr-" \o ToString(Cardinality(subscription_requests) + 1)
        status == IF existing_request # NoDoc \/ existing_subscriber # NoDoc
                  THEN 400 ELSE 200
    IN  /\ Cardinality(subscription_requests) < MaxRequests
        /\ subscription_requests' =
              IF status # 200 THEN subscription_requests
              ELSE subscription_requests \cup
                   {[_id |-> id, email |-> email, phone |-> phone,
                     status |-> "pending", deleted_at |-> NoTime]}
        /\ resp' = Response("create_subscription_request", Anonymous, Unguarded,
                            status,
                            IF status = 200 THEN [id |-> id] ELSE NoDoc)
        /\ sent' = IF status = 200 THEN Broadcast({"subscription_requests"})
                   ELSE NoBroadcast
        /\ UNCHANGED <<rate_limit_store, calls, pull, client, now, users, sessions, memberVars,
                       catalogVars, shopVars>>

approve_subscription_request(req, request_id) ==
    LET g == role_guard(req, {"owner", "partner"})
        sub_request == FindOne({q \in subscription_requests :
                                   q["_id"] = request_id})
        existing == FindOne({x \in subscribers :
                                /\ PhoneOf(x) = sub_request.phone
                                /\ x.deleted_at = NoTime})
        id == "subscriber-" \o ToString(Cardinality(subscribers) + 1)
        status == IF g.status # 200 THEN 403
                  ELSE IF sub_request = NoDoc THEN 404 ELSE 200
    IN  /\ (status = 200 /\ existing = NoDoc) => MemberCount < MaxMembers
        /\ sessions' = g.sessions
        /\ subscribers' =
              IF status = 200 /\ existing = NoDoc
              THEN subscribers \cup
                   {[_id |-> id, email |-> sub_request.email,
                     phone |-> sub_request.phone, deleted_at |-> NoTime]}
              ELSE subscribers
        /\ subscription_requests' =
              IF status # 200 THEN subscription_requests
              ELSE {IF q["_id"] = request_id THEN [q EXCEPT !.status = "approved"]
                    ELSE q : q \in subscription_requests}
        /\ resp' = Response("approve_subscription_request", req, g, status,
                            IF status = 200 THEN [message |-> "Approved"]
                            ELSE NoDoc)
        /\ sent' = IF status = 200
                   THEN Broadcast({"subscribers", "subscription_requests"})
                   ELSE NoBroadcast
        /\ UNCHANGED <<rate_limit_store, calls, pull, client, now, users, partners, admins,
                       catalogVars, shopVars>>

delete_subscription_request(req, request_id) ==
    LET g == role_guard(req, {"owner", "partner"}) IN
    /\ sessions' = g.sessions
    /\ subscription_requests' =
          IF g.status = 200 THEN SoftDelete(subscription_requests, request_id)
          ELSE subscription_requests
    /\ resp' = Response("delete_subscription_request", req, g, g.status,
                        IF g.status = 200 THEN [message |-> "Deleted"] ELSE NoDoc)
    /\ sent' = NoBroadcast
    /\ UNCHANGED <<rate_limit_store, calls, pull, client, now, users, memberVars, catalogVars,
                   shopVars>>

NextRequests ==
    \/ \E e \in Emails, ph \in Phones : create_subscription_request(e, ph)
    \/ \E r \in Callers, id \in RequestIds : approve_subscription_request(r, id)
    \/ \E r \in Callers, id \in RequestIds : delete_subscription_request(r, id)
    \/ \E r \in Callers, e \in Emails : add_subscriber(r, e)
    \/ \E r \in Callers, e \in Emails : add_admin(r, e)
    \/ \E r \in Callers, id \in MemberIds("admin-"), e \in Emails :
          update_admin(r, id, e)
    \/ \E r \in Callers, e \in Emails : add_partner(r, e)
    \/ \E r \in Callers : create_car_brand(r, "n1")

SpecRequests == InitAccess /\ [][NextRequests]_vars

----------------------------------------------------------------------------
(* Who changes the partners: partners.py, health.py *)

\* Partner documents an import may carry: one under an id add_partner
\* gives, one under an id of its own, live or soft-deleted.
ImportedPartners ==
    {[_id |-> id, email |-> e, deleted_at |-> d] :
        id \in {"partner-1", "seed-1"}, e \in Emails, d \in {NoTime, 0}}

\* $set doc: the fields of doc over those of the stored document.
SetFields(existing, doc) ==
    [f \in DOMAIN existing \cup DOMAIN doc |->
        IF f \in DOMAIN doc THEN doc[f] ELSE existing[f]]

\* import_database of one document into the partners collection.
import_database_partners(req, doc, merge_strategy) ==
    LET r == get_current_user(req)
        status == IF r.user = NoDoc \/ r.user.email # PRIMARY_OWNER_EMAIL
                  THEN 403 ELSE 200
        existing == FindOne({p \in partners : p["_id"] = doc["_id"]})
        skipped == existing # NoDoc /\ merge_strategy = "skip_existing"
        stored == IF existing = NoDoc \/ merge_strategy = "replace" THEN doc
                  ELSE SetFields(existing, doc)
    IN  /\ existing = NoDoc => MemberCount < MaxMembers
        /\ sessions' = r.sessions
        /\ partners' = IF status # 200 \/ skipped THEN partners
                       ELSE (partners \ {existing}) \cup {stored}
        /\ resp' = Response("import_database", req, r, status,
                            IF status # 200 THEN NoDoc
                            ELSE [imported |-> IF skipped THEN 0 ELSE 1,
                                  skipped |-> IF skipped THEN 1 ELSE 0])
        /\ sent' = NoBroadcast
        /\ UNCHANGED <<rate_limit_store, subscription_requests, calls, pull, client, now, users, admins, subscribers, catalogVars, shopVars>>

NextPartners ==
    \/ \E r \in Callers, e \in Emails : add_partner(r, e)
    \/ \E r \in Callers, id \in MemberIds("partner-") \cup {"seed-1"} :
          delete_partner(r, id)
    \/ \E r \in Callers : add_admin(r, "e1")
    \/ \E r \in Callers : add_subscriber(r, "e1")
    \/ \E r \in Callers, doc \in ImportedPartners,
          strategy \in {"skip_existing", "replace", "merge"} :
          import_database_partners(r, doc, strategy)

SpecPartners == InitAccess /\ [][NextPartners]_vars

----------------------------------------------------------------------------
(* Rate limiting: security.py *)

RATE_LIMIT_WINDOW == 2

RATE_LIMIT_MAX_REQUESTS == 2

\* max_requests left out by the caller.
NoMax == 0 - 1

\* What callers pass as max_requests.
MaxRequestsArgs == {NoMax} \cup 0..RATE_LIMIT_MAX_REQUESTS

\* The limit when a max_requests of 0 is taken as it is written.
max_req_keeping_zero(max_requests) ==
    IF max_requests = NoMax THEN RATE_LIMIT_MAX_REQUESTS ELSE max_requests

\* max_requests or _RATE_LIMIT_MAX_REQUESTS: None and 0 both give the default.
max_req(max_requests) ==
    IF max_requests = NoMax \/ max_requests = 0
    THEN RATE_LIMIT_MAX_REQUESTS ELSE max_requests

\* The recorded calls of a key that are younger than the window.
Recent(times) ==
    LET Young(t) == now - t < RATE_LIMIT_WINDOW IN SelectSeq(times, Young)

check_rate_limit(client_ip, endpoint, max_requests) ==
    LET key == RateKey(client_ip, endpoint)
        kept == Recent(rate_limit_store[key])
        status == IF Len(kept) >= max_req(max_requests) THEN 429 ELSE 200
    IN  /\ rate_limit_store' =
              [rate_limit_store EXCEPT
                  ![key] = IF status = 429 THEN kept ELSE Append(kept, now)]
        /\ resp' = Response("check_rate_limit", Anonymous, Unguarded, status,
                            [client_ip |-> client_ip, endpoint |-> endpoint,
                             max_requests |-> max_requests])
        /\ sent' = NoBroadcast
        /\ UNCHANGED <<subscription_requests, calls, pull, client, now, users,
                       sessions, memberVars, catalogVars, shopVars>>

NextRate ==
    \/ Tick
    \/ \E p \in RatePairs, n \in MaxRequestsArgs : check_rate_limit(p[1], p[2], n)

SpecRate == InitEmpty /\ [][NextRate]_vars

----------------------------------------------------------------------------
(* Requests that are refused: by the session, the role, a missing record or
   a duplicate *)

NextRefusals ==
    \/ \E r \in Callers, e \in Emails : add_partner(r, e)
    \/ \E r \in Callers, e \in Emails : add_admin(r, e)
    \/ \E r \in Callers, id \in MemberIds("admin-"), e \in Emails :
          update_admin(r, id, e)
    \/ \E r \in Callers, id \in MemberIds("admin-") : get_admin(r, id)
    \/ \E r \in Callers : create_car_brand(r, "n1")
    \/ \E r \in Callers, id \in CatalogIds("cb_") : update_car_brand(r, id, "n2")
    \/ \E r \in Callers :
          add_to_cart(r, [product_id |-> "p0", quantity |-> 1,
                          bundle_group_id |-> None, bundle_offer_id |-> None,
                          bundle_discount_percentage |-> NoPrice])

SpecRefusals == InitAccess /\ [][NextRefusals]_vars

----------------------------------------------------------------------------
(* Claims on sessions *)

GuardedOps == {"require_auth", "check_admin_access", "get_partners"}

\* C1: a request whose token names a stored session with expires_at <= now
\* resolves no user: require_auth and check_admin_access answer 401 and the
\* role guard answers 403, whenever in a run the request is made.
C1_ExpiredSessionNeverAuthenticates ==
    (resp.op \in GuardedOps /\ resp.facts.expired) =>
        /\ resp.user = None
        /\ resp.op \in {"require_auth", "check_admin_access"} => resp.status = 401
        /\ resp.op = "get_partners" => resp.status = 403

C1_Witness ==
    /\ resp.op = "require_auth"
    /\ resp.facts.expired
    /\ resp.status = 401
    /\ \A s \in sessions : s.session_token # resp.token

\* C3: a request whose session is stored and unexpired but whose user has
\* deleted_at set resolves no user and is rejected by every guard.
C3_SoftDeletedUserUnauthenticated ==
    (/\ resp.op \in GuardedOps
     /\ resp.facts.stored /\ ~resp.facts.expired
     /\ resp.facts.user_deleted) =>
        /\ resp.user = None
        /\ resp.status \in {401, 403}

C3_Witness ==
    /\ resp.op = "require_auth"
    /\ resp.facts.stored /\ ~resp.facts.expired
    /\ resp.facts.user_deleted
    /\ resp.status = 401
    /\ \E s \in sessions : s.session_token = resp.token /\ s.expires_at > now

----------------------------------------------------------------------------
(* Claims on roles and guards *)

HasLive(coll, email) == \E d \in coll : d.email = email /\ d.deleted_at = NoTime

RoleRank(role) ==
    CASE role = "owner" -> 5
      [] role = "partner" -> 4
      [] role = "admin" -> 3
      [] role = "subscriber" -> 2
      [] role = "user" -> 1
      [] OTHER -> 0

\* Every role the email qualifies for.
MatchingRoles(email) ==
    (IF email = PRIMARY_OWNER_EMAIL THEN {"owner"} ELSE {})
    \cup (IF HasLive(partners, email) THEN {"partner"} ELSE {})
    \cup (IF HasLive(admins, email) THEN {"admin"} ELSE {})
    \cup (IF HasLive(subscribers, email) THEN {"subscriber"} ELSE {})
    \cup {"user"}

HighestRole(email) ==
    CHOOSE r \in MatchingRoles(email) :
        \A q \in MatchingRoles(email) : RoleRank(q) <= RoleRank(r)

\* C2: for every request, in every reachable state, get_user_role gives the
\* highest-precedence role the resolved user's email qualifies for (owner,
\* partner, admin, subscriber, user), and guest exactly when no user resolved.
C2_RolePrecedence ==
    \A req \in Requests :
        LET user == get_current_user(req).user IN
        /\ user = NoDoc => get_user_role(user) = "guest"
        /\ user # NoDoc => get_user_role(user) = HighestRole(user.email)
        /\ user # NoDoc => get_user_role(user) # "guest"

C2_Witness ==
    /\ HasLive(partners, "e1") /\ HasLive(admins, "e1")
    /\ resp.op = "get_admins" /\ resp.user = UserIdFor("e1")
    /\ resp.role = "partner" /\ resp.status = 200

RequireAdminRoleOps == {"create_car_brand"}

InlineGuardOps ==
    {"add_partner", "delete_partner", "add_admin", "delete_admin", "get_admins",
     "add_subscriber", "delete_subscriber"}

AllowedRoles(op) ==
    IF op \in {"add_partner", "delete_partner"} THEN {"owner"}
    ELSE IF op \in InlineGuardOps THEN {"owner", "partner"}
    ELSE StaffRoles

NoIdentity(r) ==
    \/ r.token = None
    \/ ~r.facts.stored
    \/ r.facts.expired
    \/ r.facts.user_deleted

C6_DemotionInvalidatesSessions ==
    (/\ resp.op \in {"delete_partner", "delete_admin", "delete_subscriber"}
     /\ resp.status = 200
     /\ resp.body.email # None) =>
        ~ \E s \in sessions : \E u \in users :
              u["_id"] = s.user_id /\ u.email = resp.body.email

MemberChangeOps ==
    {"add_partner", "add_admin", "add_subscriber",
     "delete_partner", "delete_admin", "delete_subscriber"}

RoleOfEmail(req, email) ==
    LET user == get_current_user(req).user IN
    IF user # NoDoc /\ user.email = email THEN get_user_role(user) ELSE None

\* C7: right after a membership change, every request on a live session of
\* the user with the changed email resolves to the role the collections give
\* at that moment: the new role after add_partner, add_admin or
\* add_subscriber (unless a higher one applies), and no longer the removed
\* role after the record is soft-deleted, with the session left in place.
C7_RoleFollowsMemberships ==
    \A req \in Requests :
        LET e == resp.body.email
            role == RoleOfEmail(req, e)
            owner == e = PRIMARY_OWNER_EMAIL
        IN  (/\ resp.op \in MemberChangeOps
             /\ resp.status = 200
             /\ role # None) =>
            /\ resp.op = "add_partner" =>
                  role = IF owner THEN "owner" ELSE "partner"
            /\ resp.op = "add_admin" =>
                  role = IF owner THEN "owner"
                         ELSE IF HasLive(partners, e) THEN "partner" ELSE "admin"
            /\ resp.op = "add_subscriber" =>
                  role = IF owner THEN "owner"
                         ELSE IF HasLive(partners, e) THEN "partner"
                         ELSE IF HasLive(admins, e) THEN "admin" ELSE "subscriber"
            /\ (resp.op = "delete_partner" /\ ~HasLive(partners, e)) =>
                  role # "partner"
            /\ (resp.op = "delete_admin" /\ ~HasLive(admins, e)) =>
                  role # "admin"
            /\ (resp.op = "delete_subscriber" /\ ~HasLive(subscribers, e)) =>
                  role # "subscriber"
            /\ resp.op \in {"delete_partner", "delete_admin", "delete_subscriber"} =>
                  role = HighestRole(e)

C7_Witness ==
    /\ resp.op = "delete_partner" /\ resp.status = 200
    /\ resp.body.email = "e1"
    /\ \E p \in partners : p.email = "e1" /\ p.deleted_at # NoTime
    /\ RoleOfEmail([cookie |-> "t2", bearer |-> None], "e1") = "user"

----------------------------------------------------------------------------
(* Claims on catalog writes *)

CatalogWriteOps ==
    {"create_car_brand", "update_car_brand", "delete_car_brand",
     "create_car_model", "update_car_model", "delete_car_model",
     "create_product_brand", "update_product_brand", "delete_product_brand",
     "create_category", "delete_category"}

AdminsOps == {"get_admins", "add_admin", "get_admin", "update_admin", "delete_admin"}

ValidSession(r) ==
    /\ r.token # None
    /\ r.facts.stored /\ ~r.facts.expired
    /\ ~r.facts.user_deleted /\ ~r.facts.user_missing

\* C5 as claimed: a write on car-brands, car-models, product-brands or
\* categories, and any request to the admins endpoints, made without a valid
\* session is answered 401 or 403 and writes nothing.
C5_WritesNeedSession ==
    (resp.op \in CatalogWriteOps \cup AdminsOps /\ ~ValidSession(resp)) =>
        /\ resp.status \in {401, 403}
        /\ resp.body = NoDoc

----------------------------------------------------------------------------
(* Claims on the orders delta *)

Returned(body) == {body.orders[i] : i \in DOMAIN body.orders}

\* C8: the orders delta gives empty orders and empty deleted_ids to a caller
\* without a valid session; to a caller with a valid session whose role is
\* not owner, partner or admin, every returned order and every returned
\* deleted id is the caller's own, whatever user_id parameter was sent.
C8_OrdersDeltaOwnOnly ==
    resp.op = "get_orders_delta" =>
        LET caller == UserIdFor(resp.facts.email) IN
        /\ ~ValidSession(resp) =>
              resp.body.orders = <<>> /\ resp.body.deleted_ids = {}
        /\ (ValidSession(resp) /\ HighestRole(resp.facts.email) \notin StaffRoles) =>
              /\ \A o \in Returned(resp.body) : o.user_id = caller
              /\ \A id \in resp.body.deleted_ids :
                    \A o \in orders : o["_id"] = id => o.user_id = caller

\* A customer asks for the owner's orders changed since 0 and is given their
\* own order instead.
C8_Witness ==
    /\ resp.op = "get_orders_delta"
    /\ ValidSession(resp)
    /\ resp.facts.email = "e1"
    /\ HighestRole("e1") = "user"
    /\ resp.body.params = [last_sync |-> isoformat(0),
                           user_id |-> UserIdFor(PRIMARY_OWNER_EMAIL)]
    /\ Len(resp.body.orders) = 1
    /\ resp.body.orders[1].user_id = UserIdFor("e1")

----------------------------------------------------------------------------
(* Claims on cart pricing *)

RECURSIVE SeqSum(_)
SeqSum(ns) == IF ns = <<>> THEN 0 ELSE Head(ns) + SeqSum(Tail(ns))

\* The cart document the last get_cart response was computed from.
PricedCart == CartOf(resp.user)

InCatalog(line) == \E p \in products : p["_id"] = line.product_id

ListPrice(lines) ==
    SeqSum([i \in DOMAIN lines |->
               lines[i].original_unit_price * lines[i].quantity])

Savings(lines) ==
    SeqSum([i \in DOMAIN lines |->
               (lines[i].original_unit_price - lines[i].final_unit_price)
               * lines[i].quantity])

ExampleLine(line) ==
    /\ line.quantity = 2
    /\ line.original_unit_price = 100000
    /\ line.final_unit_price = 80000

\* C9 as claimed: for every stored cart GET /cart returns subtotal = the sum
\* over all of its lines of original_unit_price x quantity, total_discount =
\* the sum of the per-line discounts, and total = subtotal - total_discount.
C9_AsClaimed ==
    (resp.op = "get_cart" /\ resp.status = 200 /\ PricedCart # NoDoc) =>
        /\ resp.body.subtotal = ListPrice(PricedCart.items)
        /\ resp.body.total_discount =
              SeqSum([i \in DOMAIN resp.body.items |->
                         resp.body.items[i].item_discount])
        /\ resp.body.total = resp.body.subtotal - resp.body.total_discount

\* C9: for every stored cart GET /cart prices the lines whose product is in
\* the catalog, in stored order, and returns subtotal = the sum over those
\* lines of original_unit_price x quantity rounded to 2 decimals,
\* total_discount = the sum of their (original - final) x quantity rounded to
\* 2 decimals, and total = the difference of the two unrounded sums rounded
\* to 2 decimals; one line with quantity 2, original 100 and final 80 gives
\* 200, 40 and 160.
C9_CartTotals ==
    (resp.op = "get_cart" /\ resp.status = 200 /\ PricedCart # NoDoc) =>
        LET priced == SelectSeq(PricedCart.items, InCatalog)
            items == resp.body.items
        IN  /\ Len(items) = Len(priced)
            /\ \A i \in DOMAIN items :
                  /\ items[i].product_id = priced[i].product_id
                  /\ items[i].quantity = priced[i].quantity
                  /\ items[i].original_unit_price = priced[i].original_unit_price
                  /\ items[i].final_unit_price = priced[i].final_unit_price
                  /\ items[i].item_discount =
                        (priced[i].original_unit_price - priced[i].final_unit_price)
                        * priced[i].quantity
            /\ resp.body.subtotal = round2(ListPrice(priced))
            /\ resp.body.total_discount = round2(Savings(priced))
            /\ resp.body.total = round2(ListPrice(priced) - Savings(priced))
            /\ (Len(priced) = 1 /\ Len(PricedCart.items) = 1 /\ ExampleLine(priced[1])) =>
                  /\ resp.body.subtotal = 200000
                  /\ resp.body.total_discount = 40000
                  /\ resp.body.total = 160000

\* The cart of the example is priced: one line, quantity 2, 100 down to 80.
C9_Witness ==
    /\ resp.op = "get_cart" /\ resp.status = 200
    /\ PricedCart # NoDoc
    /\ Len(PricedCart.items) = 1
    /\ ExampleLine(PricedCart.items[1])
    /\ Len(resp.body.items) = 1
    /\ resp.body.subtotal = 200000
    /\ resp.body.total_discount = 40000
    /\ resp.body.total = 160000

\* C10 as claimed: in every GET /cart response each line's item_discount and
\* the total_discount are >= 0, a line whose final_unit_price exceeds its
\* original_unit_price contributes an item_discount of 0, and total never
\* exceeds subtotal.
C10_DiscountNeverNegative ==
    (resp.op = "get_cart" /\ resp.status = 200) =>
        /\ \A i \in DOMAIN resp.body.items :
              LET line == resp.body.items[i] IN
              /\ line.item_discount >= 0
              /\ line.final_unit_price > line.original_unit_price =>
                    line.item_discount = 0
        /\ resp.body.total_discount >= 0
        /\ resp.body.total <= resp.body.subtotal

----------------------------------------------------------------------------
(* Claims on stored prices *)

\* What GET /cart reports for a priced line: the two unit prices, the item
\* subtotal and the item discount.
ReportedLine(line) ==
    [original_unit_price |-> line.original_unit_price,
     final_unit_price |-> line.final_unit_price,
     item_subtotal |-> line.item_subtotal,
     item_discount |-> line.item_discount]

\* What a GET /cart body reports: its priced lines and the three totals.
ReportedBody(body) ==
    [lines |-> [i \in DOMAIN body.items |-> ReportedLine(body.items[i])],
     subtotal |-> body.subtotal,
     total_discount |-> body.total_discount,
     total |-> body.total]

\* What GET /cart reports for a stored cart (a one-element set).
Reported(cart) ==
    {ReportedBody(body) :
        body \in {cart_totals(cart.user_id, lines) :
                     lines \in {cart_items(cart.items)}}}

C12_AddStoresPrices ==
    resp.op = "add_to_cart" =>
        /\ resp.status = 200 =>
              LET line == resp.body
                  live == FindOne({p \in products : p["_id"] = line.product_id})
              IN  /\ line.original_unit_price = live.price
                  /\ line.discount_details.discount_type = "bundle" =>
                        /\ 100 * line.final_unit_price
                              = 1000 * RoundHalfEven(
                                    line.original_unit_price
                                    * (100 - line.discount_details.discount_value),
                                    1000)
                        /\ line.discount_details.discount_source_id = "offer1"
                  /\ line.discount_details.discount_type = "none" =>
                        line.final_unit_price = line.original_unit_price
        /\ resp.status = 404 => resp.body = NoDoc

----------------------------------------------------------------------------
(* Claims on cart edits *)

\* The caller's cart lines before and after the step that produced resp'.
LinesBefore == CartOf(resp'.user).items
LinesAfter == FindOne({c \in carts' : c.user_id = resp'.user}).items

\* The sequence without its i-th element.
Without(seq, i) == [j \in 1..(Len(seq) - 1) |-> IF j < i THEN seq[j] ELSE seq[j + 1]]

\* C13: an add to an existing cart of a product that already has a line in
\* the same bundle group (no group counting as one) adds the requested
\* quantity to the first such line and leaves the number of lines as it was;
\* otherwise, also when the product only has lines in other groups, the
\* requested line is appended.
C13_MergeLaw ==
    [][(/\ resp'.op = "add_to_cart" /\ resp'.status = 200
        /\ CartOf(resp'.user) # NoDoc) =>
          LET item == resp'.body
              same == {i \in DOMAIN LinesBefore :
                          /\ LinesBefore[i].product_id = item.product_id
                          /\ LinesBefore[i].bundle_group_id = item.bundle_group_id}
          IN  IF same # {}
              THEN \E i \in same :
                      /\ \A j \in same : i <= j
                      /\ LinesAfter = [LinesBefore EXCEPT
                                          ![i].quantity = @ + item.quantity]
              ELSE LinesAfter = Append(LinesBefore, item)]_vars

\* Three pieces were added to a line of two: one line of five.  A bundle add
\* of the same product would have been a second line.
C13_Witness ==
    /\ resp.op = "add_to_cart" /\ resp.status = 200
    /\ CartOf(resp.user) # NoDoc
    /\ resp.body.quantity = 3
    /\ resp.body.bundle_group_id = None
    /\ Len(CartOf(resp.user).items) = 1
    /\ CartOf(resp.user).items[1].quantity = 5

\* C14 as claimed: PUT /cart/update removes one line (q <= 0) or replaces one
\* line's quantity (q > 0) and changes no other line of the cart, or leaves
\* the cart as it was when it targets no line.
C14_UpdateTouchesOneLine ==
    [][(/\ resp'.op = "update_cart" /\ resp'.status = 200
        /\ CartOf(resp'.user) # NoDoc) =>
          \/ LinesAfter = LinesBefore
          \/ \E i \in DOMAIN LinesBefore : LinesAfter = Without(LinesBefore, i)
          \/ \E i \in DOMAIN LinesBefore, q \in 1..MaxLineQty :
                LinesAfter = [LinesBefore EXCEPT ![i].quantity = q]]_vars

----------------------------------------------------------------------------
(* Claims on stock validation and on the cart reads *)

\* What a line must be classified as, from the catalog as it is now.
Verdict(line) ==
    IF \A p \in products : p["_id"] # line.product_id THEN "product_not_found"
    ELSE LET p == CHOOSE q \in products : q["_id"] = line.product_id
             stock == IF "stock_quantity" \in DOMAIN p THEN p.stock_quantity ELSE 0
         IN  IF stock < line.quantity THEN "insufficient_stock" ELSE "valid"

Available(line) ==
    IF \A p \in products : p["_id"] # line.product_id THEN 0
    ELSE LET p == CHOOSE q \in products : q["_id"] = line.product_id
         IN  IF "stock_quantity" \in DOMAIN p THEN p.stock_quantity ELSE 0

IsInvalid(line) == Verdict(line) # "valid"
IsValid(line) == Verdict(line) = "valid"

\* C16: validate-stock puts every cart line into exactly one of the two
\* lists, in cart order: product missing gives product_not_found, stock below
\* the requested quantity gives insufficient_stock with available_stock = the
\* current stock, anything else is valid; the valid flag is true exactly when
\* no line is invalid.
C16_StockClassification ==
    (resp.op = "validate_cart_stock" /\ resp.status = 200) =>
        LET cart == CartOf(resp.user)
            body == resp.body
        IN  /\ body.valid <=> (body.invalid_items = <<>>)
            /\ (cart = NoDoc \/ cart.items = <<>>) => body.valid
            /\ (cart # NoDoc /\ cart.items # <<>>) =>
                  LET bad == SelectSeq(cart.items, IsInvalid)
                      good == SelectSeq(cart.items, IsValid)
                  IN  /\ body.total_items = Len(cart.items)
                      /\ Len(body.invalid_items) = Len(bad)
                      /\ Len(body.valid_items) = Len(good)
                      /\ \A i \in DOMAIN bad :
                            /\ body.invalid_items[i].product_id = bad[i].product_id
                            /\ body.invalid_items[i].reason = Verdict(bad[i])
                            /\ body.invalid_items[i].requested_quantity = bad[i].quantity
                            /\ body.invalid_items[i].available_stock = Available(bad[i])
                      /\ \A i \in DOMAIN good :
                            /\ body.valid_items[i].product_id = good[i].product_id
                            /\ body.valid_items[i].requested_quantity = good[i].quantity
                            /\ body.valid_items[i].available_stock = Available(good[i])

\* Five pieces asked of a product with three in stock.
C16_Witness ==
    /\ resp.op = "validate_cart_stock" /\ resp.status = 200
    /\ CartOf(resp.user) # NoDoc
    /\ Len(CartOf(resp.user).items) = 1
    /\ CartOf(resp.user).items[1].quantity = 5
    /\ \E p \in products : p["_id"] = "p1" /\ Available([product_id |-> "p1"]) = 3
    /\ resp.body.valid = FALSE
    /\ Len(resp.body.invalid_items) = 1
    /\ resp.body.invalid_items[1].reason = "insufficient_stock"
    /\ resp.body.invalid_items[1].available_stock = 3
    /\ resp.body.valid_items = <<>>

CartReads == {"get_cart", "validate_cart_stock"}

\* C17: a GET /cart or validate-stock step changes neither carts nor
\* products, and when it directly follows the same read by the same caller
\* it gives the same body.
C17_ReadsAreReadOnly ==
    [][resp'.op \in CartReads =>
          /\ carts' = carts
          /\ products' = products
          /\ (resp.op = resp'.op /\ resp.token = resp'.token
              /\ resp.status = 200 /\ resp'.status = 200) =>
                resp'.body = resp.body]_vars

\* A cart with a line whose product is gone has been read, the line is still
\* stored, and what was reported is what a second read reports.
C17_Witness ==
    /\ resp.op = "get_cart" /\ resp.status = 200
    /\ CartOf(resp.user) # NoDoc
    /\ Len(CartOf(resp.user).items) = 2
    /\ CartOf(resp.user).items[1].product_id = "p0"
    /\ Len(resp.body.items) = 1
    /\ resp.body = cart_totals(resp.user, cart_items(CartOf(resp.user).items))

----------------------------------------------------------------------------
(* Claims on delta sync *)

Live(coll) == {d \in coll : d.deleted_at = NoTime}

\* The instant a last_sync text names, or NoTime when it names none.
Since(text) ==
    IF text \in {isoformat(t) : t \in 0..MaxTime}
    THEN CHOOSE t \in 0..MaxTime : isoformat(t) = text
    ELSE NoTime

\* For one table's part of a response: with a since T, items are exactly
\* the live records with updated_at > T and deleted_ids exactly the ids of
\* the records with deleted_at > T; without one, items are all live records
\* and deleted_ids is empty.
DeltaIsExact(coll, items, deleted_ids, T) ==
    /\ items = {serialize_doc(d) : d \in
                   {d \in Live(coll) : T # NoTime => d.updated_at > T}}
    /\ \A x \in items : x.deleted_at = NoTime /\ (T # NoTime => x.updated_at > T)
    /\ T = NoTime => deleted_ids = {}
    /\ T # NoTime =>
          deleted_ids = {d["_id"] : d \in {d \in coll : d.deleted_at > T}}

Asked(r) ==
    IF r.body.params.tables = <<>>
    THEN allowed_tables
    ELSE IF r.op = "get_full_delta"
         THEN {strip(t) : t \in Pieces(r.body.params.tables)}
         ELSE Pieces(r.body.params.tables)

\* C20: a bulk pull answers 200 with entries exactly for the requested
\* tables that are in the whitelist {products, categories, car_brands,
\* car_models, product_brands}; a name outside it gets no entry.
C20_Whitelist ==
    resp.op \in {"get_full_delta", "sync_pull"} =>
        /\ resp.status = 200
        /\ DOMAIN resp.body.data
              = Asked(resp) \cap {"products", "categories", "car_brands",
                                  "car_models", "product_brands"}
        /\ "users" \notin DOMAIN resp.body.data
        /\ "sessions" \notin DOMAIN resp.body.data

\* car_models and users were asked for: car_models is answered, users is not.
C20_Witness ==
    /\ resp.op = "get_full_delta"
    /\ resp.body.params.tables = <<"car_models", "users">>
    /\ users # {}
    /\ DOMAIN resp.body.data = {"car_models"}
    /\ resp.body.data["car_models"].items # {}

\* The server_time of a finished response is not later than the instant its
\* first query ran.
ServerTimeNotLater ==
    pull.stage = "done" => Since(pull.server_time) <= pull.queried_at

\* When the table is as the first query of the last applied response saw it,
\* and no record is stamped exactly at the client's since, the replica equals
\* the non-deleted records of the table.
ReplicaConverges ==
    ( /\ pull.stage = "idle"
      /\ client.since # None
      /\ pull.seen = car_models
      /\ \A d \in car_models : /\ d.updated_at # Since(client.since)
                               /\ d.deleted_at # Since(client.since) )
    => client.replica = {serialize_doc(d) : d \in Live(car_models)}

\* C19: a client that starts from a full pull of car_models and passes each
\* response's server_time as the next since misses no change: server_time is
\* never later than the instant the returned snapshot reflects, and once the
\* mutations stop one more pull makes the replica equal to the non-deleted
\* records of the table.
C19_NoChangeMissed == ServerTimeNotLater /\ ReplicaConverges

----------------------------------------------------------------------------
(* Claims on the stored cart lines *)

\* C22: after any sequence of cart requests (add, add-enhanced, update,
\* clear, void-bundle) with any request quantities, every stored cart line
\* has quantity >= 1.
C22_QuantityAtLeastOne ==
    \A c \in carts : \A i \in DOMAIN c.items : c.items[i].quantity >= 1

\* C23: after any sequence of non-overlapping cart requests, two lines of
\* one cart share a product_id only if their bundle_group_id values differ.
C23_OneLinePerProductAndGroup ==
    \A c \in carts : \A i, j \in DOMAIN c.items :
        (i # j /\ c.items[i].product_id = c.items[j].product_id)
            => c.items[i].bundle_group_id # c.items[j].bundle_group_id

----------------------------------------------------------------------------
(* Claims on overlapping cart requests *)

\* C21: at most one cart document exists per user in every reachable state,
\* also when two first adds of the same user overlap.
C21_OneCartPerUser ==
    \A c1, c2 \in carts : c1.user_id = c2.user_id => c1 = c2

\* The stored lines of the caller of request c before and after a step.
StoredBefore(c) == CartOf(calls[c].user.id).items

StoredAfter(c) == FindOne({d \in carts' : d.user_id = calls[c].user.id}).items

\* Request c completes with a write to an existing cart in this step.
Completes(c, op) ==
    /\ calls[c].op = op
    /\ calls'[c].op = "idle"
    /\ resp'.status = 200
    /\ calls[c].found

\* C27: a merging add increases the quantity only of a line whose product_id
\* is the added product, and never creates a line without a product_id,
\* whatever update, clear or void-bundle did since the add read the cart.
C27_MergeHitsOwnProduct ==
    [][\A c \in CallIds :
          (Completes(c, "add_to_cart")
           /\ calls[c].existing_idx # 0)
          => /\ \A i \in DOMAIN StoredAfter(c) :
                   /\ "product_id" \in DOMAIN StoredAfter(c)[i]
                   /\ (i \in DOMAIN StoredBefore(c)
                       /\ StoredAfter(c)[i] # StoredBefore(c)[i])
                      => StoredAfter(c)[i].product_id = calls[c].item.product_id
             /\ Len(StoredAfter(c)) = Len(StoredBefore(c))]_vars

\* C28: void-bundle changes only the lines of its bundle group in the cart
\* as it is stored when void-bundle writes, so that what an add or update
\* completed meanwhile is kept.
C28_VoidKeepsOtherWrites ==
    [][\A c \in CallIds :
          Completes(c, "void_bundle_discount")
          => StoredAfter(c) = void_items(StoredBefore(c),
                                         calls[c].bundle_group_id)]_vars

----------------------------------------------------------------------------
(* Claims on refused requests and on broadcasts *)

Refusals == {400, 401, 403, 404}

\* The stored sessions that the token of the request names and that have
\* expired.
ExpiredOf(token) ==
    {x \in sessions : x.session_token = token /\ x.expires_at <= now}

\* C24: a request that fails with 401, 403, 404 or 400 leaves every
\* collection unchanged and broadcasts nothing, except that a request
\* bearing an expired session token deletes exactly that session record.
C24_RefusalChangesNothing ==
    [][resp'.status \in Refusals =>
          /\ UNCHANGED <<users, memberVars, catalogVars, shopVars,
                         subscription_requests>>
          /\ sent' = NoBroadcast
          /\ \/ sessions' = sessions
             \/ /\ ExpiredOf(resp'.token) # {}
                /\ sessions' = sessions \ ExpiredOf(resp'.token)
                /\ Cardinality(ExpiredOf(resp'.token)) = 1]_vars

\* add_admin was refused for a caller whose session had expired: that
\* session is gone, the owner's session is still there, no admin was added.
C24_Witness ==
    /\ resp.op = "add_admin" /\ resp.status = 403
    /\ resp.facts.expired
    /\ \A x \in sessions : x.session_token # resp.token
    /\ \E x \in sessions : x.session_token = "t1"
    /\ admins = {}

\* add_admin was refused with 400 for an email that is already an admin's.
C24_WitnessDuplicate ==
    /\ resp.op = "add_admin" /\ resp.status = 400
    /\ Cardinality({a \in admins : a.deleted_at = NoTime}) = 1

\* C25: every successful mutation of a collection comes with a broadcast of
\* a message of type sync whose tables contain that collection.
C25_MutationIsBroadcast ==
    [][resp'.status = 200 =>
          /\ memberVars' # memberVars \/ catalogVars' # catalogVars
             \/ subscription_requests' # subscription_requests
             => sent' # NoBroadcast
          /\ \A m \in {sent'[i] : i \in DOMAIN sent'} :
                m.type = "sync"
          /\ partners' # partners => \E i \in DOMAIN sent' :
                                        "partners" \in sent'[i].tables
          /\ admins' # admins => \E i \in DOMAIN sent' :
                                    "admins" \in sent'[i].tables
          /\ subscribers' # subscribers =>
                \E i \in DOMAIN sent' : "subscribers" \in sent'[i].tables
          /\ car_brands' # car_brands =>
                \E i \in DOMAIN sent' : "car_brands" \in sent'[i].tables
          /\ subscription_requests' # subscription_requests =>
                \E i \in DOMAIN sent' :
                   "subscription_requests" \in sent'[i].tables]_vars

----------------------------------------------------------------------------
(* Claims on memberships *)

Memberships == {partners, admins, subscribers}

\* C29: each of the admins, partners and subscribers collections holds at
\* most one non-deleted record per email.
C29_OneRecordPerEmail ==
    \A coll \in Memberships : \A a, b \in coll :
        (a.email = b.email /\ a.deleted_at = NoTime /\ b.deleted_at = NoTime)
            => a = b

----------------------------------------------------------------------------
(* Claims on rate limiting *)

\* The accepted calls of the key of the call just served that lay within
\* the window when it was served, the call itself left out.
AcceptedBefore ==
    Len(Recent(rate_limit_store[RateKey(resp'.body.client_ip,
                                        resp'.body.endpoint)]))

\* The limit the caller of the call just served asked for.
Asked_max_requests ==
    IF resp'.body.max_requests = NoMax THEN RATE_LIMIT_MAX_REQUESTS
    ELSE resp'.body.max_requests

----------------------------------------------------------------------------
(* Claims on who makes a partner *)

\* The partner records that are not deleted.
ActivePartners == {p \in partners : p.deleted_at = NoTime}

\* The role the caller of the request just served resolved to when the
\* request arrived.
CallerRole ==
    LET r == get_current_user([cookie |-> resp'.token, bearer |-> None])
    IN  IF r.user = NoDoc THEN "guest" ELSE get_user_role(r.user)

\* C30: the set of non-deleted partner records changes only in a request
\* whose caller resolves to the role owner; requests of partners, admins,
\* subscribers, users and guests leave it as it is.
C30_OnlyOwnerChangesPartners ==
    [][ActivePartners' # ActivePartners => CallerRole = "owner"]_vars

\* A partner asked to add a partner and was refused.
C30_Witness ==
    /\ resp.op = "add_partner"
    /\ resp.role = "partner"
    /\ resp.status = 403
    /\ ActivePartners # {}

====
